---- MODULE Spec2Model ----
(***************************************************************************)
(* Chat-completion bridge (grafana-deepseek-demo).                         *)
(*                                                                         *)
(* Three revisions of the request handler are modelled, each as its own    *)
(* specification over its own variables:                                   *)
(*                                                                         *)
(*   Spec      - bridge/BridgeService.js : handleChat / processPrompt with *)
(*               the JSON-action analysis call and the SSE renderer.       *)
(*   SpecMcp   - the tool-call revision of BridgeService (handleChat /     *)
(*               _checkMCP) driving McpHelper / GrafanaMcp.executeTools.   *)
(*   SpecIndex - bridge/index.js : the function-based handler of           *)
(*               POST /v1/chat/completions.                                *)
(*                                                                         *)
(* and, beside them,                                                       *)
(*                                                                         *)
(*   SpecPair  - two requests in flight on one instance of the tool-call   *)
(*               revision, interleaved at their await points.              *)
(*   SpecSpan  - one call of withSpan (TempoTracer.js / LoggerHelper.js).  *)
(*   SpecAuth  - one request through authMiddleware.                       *)
(*   SpecJson  - the revision of BridgeService whose processPrompt looks   *)
(*               at mcpResponse.error (src/unnamed/part_005).              *)
(*   SpecService - initialisation of the service and of its tracer, then   *)
(*               calls through the tracer reference.                       *)
(*   SpecNorm  - normalizeIdentifier applied to bounded inputs.            *)
(*   SpecLive  - Spec with weak fairness of the handler's own steps.       *)
(*                                                                         *)
(* Spec, SpecIndex and SpecJson take the tracer reference as usable and    *)
(* withSpan as transparent; SpecService and SpecSpan look at those.        *)
(*                                                                         *)
(* Text is a sequence of tokens (<<>> is the empty string), so that        *)
(* joins, includes/endsWith/startsWith and "last line" are computed.       *)
(***************************************************************************)
EXTENDS Integers, Sequences, FiniteSets, TLC

\* ------------------------------------------------------------------ bounds
\* longest backend chunk sequence of a streamed answer
MaxChunks == 2
\* largest number of ToolCalls in one LLM opinion response
MaxToolCalls == 2
\* largest number of requests posted one after the other to one instance
MaxRuns == 2
\* largest number of callLLM / callMCP calls made after initialisation
MaxServiceCalls == 3
\* longest identifier handed to normalizeIdentifier, in code units
MaxIdLen == 3

\* ============================================================================
\*  Part I : bridge/BridgeService.js
\* ============================================================================

VARIABLES
  mode,          \* this.config.mode : "LLM" | "TEST"
  body,          \* req.body
  pc,            \* position of handleChat: the await it is suspended at
  prompt,        \* handleChat local: the selected prompt text
  stream,        \* handleChat local: body.stream === true
  analysisResponse, \* processPrompt local: text of the analysis reply
  parsed,        \* processPrompt local: decoded analysis response
  askLLM,        \* processPrompt local
  finalResponse, \* processPrompt local
  res,           \* the HTTP response object
  llmCalls,      \* every ollama.chat request issued so far, in order
  mcpCalls,      \* every MCP JSON-RPC request issued so far, in order
  backend,       \* chunks the streamed ollama.chat will still yield
  failure,       \* which external call of the request has failed ("none")
  metrics,       \* BridgeMetrics counters and stopped timers
  respId,        \* handleChat local: chatcmpl-<randomUUID>
  response,      \* handleChat local: what processPrompt returned
  replies,       \* what the LLM and the MCP server answered to this request, in order
  consumed,      \* chunks streamLLMResponse has taken from the backend, in order
  closed,        \* whether the client has closed the connection, and what had been done by then
  run,           \* which request of this instance is being served
  now,           \* Math.floor(Date.now() / 1000)
  prev           \* outcome of the previous request of this instance

varsA == <<mode, body, pc, prompt, stream, analysisResponse, parsed, askLLM, finalResponse,
           res, llmCalls, mcpCalls, backend, failure, metrics,
           respId, response, replies, consumed, closed, run, now, prev>>

\* history of the streamed answer / of the instance
streamHist == <<consumed, closed>>
runHist == <<run, now, prev>>

\* Part II : the tool-call revision (handleChat / _checkMCP / executeTools)
VARIABLES
  inbound,    \* req.body.messages as received
  owaspOk,    \* outcome of this.ollama.checkOWASP(helper) for this request
  helper,     \* the request's helper: prompt {messages, tools}, answer {content, tool_calls}
  tpc,        \* position of handleChat / _checkMCP / executeTools
  toolIdx,    \* executeTools: index of the ToolCall the for-loop is at
  results,    \* executeTools: the local results list
  inflight,   \* MCP requests sent and not yet answered
  rpcLog,     \* every MCP JSON-RPC request sent so far, in order
  outcomes,   \* how the tool server answered each of them, in order
  chatLog,    \* every LLM chat request issued so far, in order
  trace,      \* start / end of each external call and tool dispatch, in order
  resT,       \* the HTTP response
  metricsT    \* BridgeMetrics counters and stopped timers

varsB == <<inbound, owaspOk, helper, tpc, toolIdx, results, inflight, rpcLog,
           outcomes, chatLog, trace, resT, metricsT>>

\* Part III : bridge/index.js, the function-based handler of
\* POST /v1/chat/completions
VARIABLES
  ixMode,          \* LLM_MODE : "LLM" | "MCP" | "TEST" | anything else
  ixBody,          \* req.body
  ixPc,            \* position of the handler: the await it is suspended at
  ixPrompt,        \* let prompt
  ixAnalysis,      \* const analysisResponse
  ixAskLLM,        \* let askLLM
  ixFinalResponse, \* let finalResponse
  ixRes,           \* the HTTP response object
  ixLlmCalls,      \* every ollama.chat request issued so far, in order
  ixMcpCalls,      \* every MCP JSON-RPC request issued so far, in order
  ixBackend,       \* chunks the streamed ollama.chat will still yield
  ixFailure,       \* which external call of the request has failed ("none")
  ixMetrics        \* the prom-client counters and stopped timers

varsC == <<ixMode, ixBody, ixPc, ixPrompt, ixAnalysis, ixAskLLM, ixFinalResponse,
           ixRes, ixLlmCalls, ixMcpCalls, ixBackend, ixFailure, ixMetrics>>

\* Part IV : two requests in flight on one instance of the tool-call revision
VARIABLES
  mcpTools,     \* this.mcp.tools : the catalog every request attaches
  pairMetrics,  \* this.metrics
  qInbound,     \* per request: req.body.messages as received
  qOwaspOk,     \* per request: outcome of this.ollama.checkOWASP(helper)
  qHelper,      \* per request: its helper
  qPc,          \* per request: the await its handler is suspended at
  qIdx,         \* per request: executeTools loop index
  qResults,     \* per request: executeTools local results
  qChat,        \* per request: the LLM chat requests it has issued, in order
  qRpc,         \* per request: the MCP requests it has sent, in order
  qGot,         \* per request: the replies it has received, in order
  qRes          \* per request: its HTTP response

varsD == <<mcpTools, pairMetrics, qInbound, qOwaspOk, qHelper, qPc, qIdx, qResults,
           qChat, qRpc, qGot, qRes>>

\* Part V : one call of withSpan(name, attributes, fn)
VARIABLES
  spImpl,    \* which file's withSpan is called
  spTracer,  \* this.tracer is set (init() has run)
  spAttrs,   \* what the values of `attributes` are
  spPc,      \* position of withSpan: "idle", "fn" (awaiting fn), "done"
  spCalls,   \* how many times fn has been invoked
  spFn,      \* how fn settled
  spOut,     \* how withSpan settled
  spSpan     \* the OpenTelemetry span

varsE == <<spImpl, spTracer, spAttrs, spPc, spCalls, spFn, spOut, spSpan>>

\* Part VI : one request through authMiddleware
VARIABLES
  auKey,     \* process.env.LLM_BRIDGE_API_KEY
  auHeader,  \* req.headers.authorization
  auApiKey,  \* req.body.prompt.apiKey
  auPc,      \* "idle", "next", "rejected", "handled"
  auRes,     \* the HTTP response written by the middleware
  auNext,    \* how many times next() was called
  auHandled  \* how many times the chat handler was invoked

varsF == <<auKey, auHeader, auApiKey, auPc, auRes, auNext, auHandled>>

\* Part VII : the revision of BridgeService whose processPrompt looks at
\* mcpResponse.error (src/unnamed/part_005), serving one request
VARIABLES
  jMode,      \* this.config.mode
  jBody,      \* req.body
  jPc,        \* "idle" | "analysis" | "mcp" | "summary" | "answer" | "stream" | "done"
  jPrompt,    \* handleChat local
  jStream,    \* handleChat local: body.stream === true
  jParsed,    \* processPrompt local
  jAskLLM,    \* processPrompt local
  jFinal,     \* processPrompt local finalResponse
  jMcpReply,  \* processPrompt local mcpResponse
  jRes,       \* the HTTP response
  jLlmCalls,  \* requests sent to ollama.chat
  jMcpCalls,  \* requests POSTed to the MCP server
  jBackend,   \* chunks the streamed reply still has to yield
  jFailure,   \* which external call rejected
  jMetrics    \* this.metrics

varsG == <<jMode, jBody, jPc, jPrompt, jStream, jParsed, jAskLLM, jFinal, jMcpReply,
           jRes, jLlmCalls, jMcpCalls, jBackend, jFailure, jMetrics>>

\* Part VIII : initialisation of the service and the tracer reference that
\* callLLM / callMCP use afterwards
VARIABLES
  svRev,     \* which file's initialisation runs
  svPc,      \* "new" | "starting" | "ready" | "calling" | "failed"
  svTempo,   \* this.tempo / tempo : "null" | "undefined" | "TempoTracer"
  svTracer,  \* the TempoTracer object's this.tracer is set
  svCall,    \* the call in flight inside withSpan
  svLog      \* how the calls made so far settled

varsH == <<svRev, svPc, svTempo, svTracer, svCall, svLog>>

\* Part IX : normalizeIdentifier(input) applied once and then to its own
\* result
VARIABLES
  niInput,  \* the argument: a string (sequence of UTF-16 code units) or not
  niPc,     \* "idle" | "once" | "twice"
  niOut,    \* normalizeIdentifier(input)
  niTwice   \* normalizeIdentifier(normalizeIdentifier(input))

varsK == <<niInput, niPc, niOut, niTwice>>

vars == <<varsA, varsB, varsC, varsD, varsE, varsF, varsG, varsH, varsK>>

\* what the actions of one part leave alone
othersA == <<varsB, varsC, varsD, varsE, varsF, varsG, varsH, varsK>>
othersB == <<varsA, varsC, varsD, varsE, varsF, varsG, varsH, varsK>>
othersC == <<varsA, varsB, varsD, varsE, varsF, varsG, varsH, varsK>>
othersD == <<varsA, varsB, varsC, varsE, varsF, varsG, varsH, varsK>>
othersE == <<varsA, varsB, varsC, varsD, varsF, varsG, varsH, varsK>>
othersF == <<varsA, varsB, varsC, varsD, varsE, varsG, varsH, varsK>>
othersG == <<varsA, varsB, varsC, varsD, varsE, varsF, varsH, varsK>>
othersH == <<varsA, varsB, varsC, varsD, varsE, varsF, varsG, varsK>>
othersK == <<varsA, varsB, varsC, varsD, varsE, varsF, varsG, varsH>>

\* ---------------------------------------------------------------- text
SENTINEL_TOOLS == "#mcp:grafana:tools"
SENTINEL_SHOW == "#mcp:grafana Show grafana version"

\* String.includes("#mcp:grafana") on one token
TokenIncludesMcp(t) == t \in {SENTINEL_TOOLS, SENTINEL_SHOW}

\* mutant of IncludesMcp: every prompt is taken for a tool request
IncludesMcp_Always(text) == TRUE

\* prompt.includes("#mcp:grafana")
IncludesMcp(text) == \E i \in 1..Len(text) : TokenIncludesMcp(text[i])

\* mutant of EndsWithTools: the tools-list shortcut is never recognised
EndsWithTools_Never(text) == FALSE

\* prompt.endsWith("#mcp:grafana:tools")
EndsWithTools(text) == Len(text) > 0 /\ text[Len(text)] = SENTINEL_TOOLS

\* `${m.role}: ` as one token
RoleTag(role) ==
  CASE role = "user"      -> "user: "
    [] role = "assistant" -> "assistant: "
    [] role = "system"    -> "system: "
    [] OTHER              -> "tool: "

RECURSIVE JoinLines(_)
\* messages.map(m => `${m.role}: ${m.content}`).join("\n")
JoinLines(ms) ==
  IF ms = <<>> THEN <<>>
  ELSE LET line == <<RoleTag(ms[1].role)>> \o ms[1].content
       IN IF Len(ms) = 1 THEN line ELSE line \o <<"\n">> \o JoinLines(Tail(ms))

\* JSON.stringify(body) as a single opaque token
StringifyBody(b) == <<"{body}">>

\* mutant of SelectPrompt: body.prompt is looked at before body.messages
SelectPrompt_PromptFirst(b) ==
  IF b.prompt # <<>> THEN b.prompt
  ELSE IF JoinLines(b.messages) # <<>> THEN JoinLines(b.messages)
  ELSE IF b.input # <<>> THEN b.input
  ELSE StringifyBody(b)

\* body.messages?.map(...).join("\n") || body.prompt || body.input || JSON.stringify(body)
\* (an absent `messages` and an empty array both give a falsy first operand)
SelectPrompt(b) ==
  IF JoinLines(b.messages) # <<>> THEN JoinLines(b.messages)
  ELSE IF b.prompt # <<>> THEN b.prompt
  ELSE IF b.input # <<>> THEN b.input
  ELSE StringifyBody(b)

LOREM == <<"Lorem ipsum dolor sit amet">>
STREAM_ERROR == <<"Error in streaming">>
SYSTEM_PROMPT == <<"<system-prompt.mdc>">>
SUMMARIZE_SYSTEM == <<"You received telemetry data from MCP server. Summarize naturally.">>
SUMMARIZE_USER == <<"Summarize this result in natural language.">>
UNDEFINED == <<"undefined">>

\* ------------------------------------------------------- request bodies
Msg(r, c) == [role |-> r, content |-> c]

MessageLists ==
  { <<>>,
    << Msg("user", <<"Hello">>) >>,
    << Msg("user", <<SENTINEL_SHOW>>) >>,
    << Msg("user", <<SENTINEL_TOOLS>>) >>,
    << Msg("user", <<SENTINEL_SHOW>>), Msg("assistant", <<"ok">>), Msg("user", <<"Hello">>) >> }

Bodies ==
  [ messages : MessageLists,
    prompt   : { <<>>, <<SENTINEL_SHOW>> },
    input    : { <<>>, <<"Hello">> },
    stream   : BOOLEAN ]

\* ------------------------------------------------------ external replies
\* text of a non-streamed LLM reply (response.message.content)
ANALYSIS_MCP == <<"{\"action\":\"mcp\",\"method\":\"tools/call\"}">>
ANALYSIS_NOMETH == <<"{\"action\":\"mcp\"}">>
ANALYSIS_RESPOND == <<"{\"action\":\"respond\",\"text\":\"hi\"}">>
ANALYSIS_NOTJSON == <<"I think you want dashboards">>

LlmReplies == { ANALYSIS_MCP, ANALYSIS_NOMETH, ANALYSIS_RESPOND, ANALYSIS_NOTJSON }

AnswerReplies == { <<"Hi there">>, ANALYSIS_NOTJSON }

NoParsed == [ok |-> FALSE, action |-> "", method |-> "", text |-> <<>>]

\* JSON.parse(analysisResponse); ok = FALSE when it throws
JSONparse(text) ==
  CASE text = ANALYSIS_MCP     -> [ok |-> TRUE, action |-> "mcp", method |-> "tools/call", text |-> <<>>]
    [] text = ANALYSIS_NOMETH  -> [ok |-> TRUE, action |-> "mcp", method |-> "", text |-> <<>>]
    [] text = ANALYSIS_RESPOND -> [ok |-> TRUE, action |-> "respond", method |-> "", text |-> <<"hi">>]
    [] OTHER                   -> NoParsed

\* bodies of a 2xx MCP reply: with a result, or with an error and no result
McpReplies == { [hasResult |-> TRUE,  result |-> "dashboards"],
                [hasResult |-> FALSE, result |-> ""] }

\* JSON.stringify(mcpResponse?.result)
StringifyResult(r) == IF r.hasResult THEN <<"json", r.result>> ELSE UNDEFINED

\* chunks of a streamed reply
Chunks == [ content : { <<>>, <<"Hi">>, <<" there">> }, done : BOOLEAN ]

RECURSIVE SeqsUpTo(_, _)
SeqsUpTo(S, n) ==
  IF n = 0 THEN { <<>> }
  ELSE LET shorter == SeqsUpTo(S, n - 1)
       IN shorter \cup { Append(s, x) : s \in shorter, x \in S }

Backends == SeqsUpTo(Chunks, MaxChunks)

\* ------------------------------------------------------------ response
Frame(t, c) == [type |-> t, content |-> c]

\* terminals: how many times res.json(...) or res.end() was called
NewRes == [headersSent |-> FALSE, frames |-> <<>>, ended |-> FALSE,
           status |-> 0, json |-> <<>>, isError |-> FALSE, terminals |-> 0]

\* setupStream: headers and the role-announcement chunk
SetupStream(r) ==
  [r EXCEPT !.headersSent = TRUE, !.frames = Append(@, Frame("role", <<>>))]

\* writeStreamChunk: one content delta
WriteStreamChunk(r, content) ==
  [r EXCEPT !.headersSent = TRUE, !.frames = Append(@, Frame("delta", content))]

\* endStream: finish chunk, the [DONE] frame, res.end()
EndStream(r) ==
  [r EXCEPT !.headersSent = TRUE,
            !.frames = @ \o << Frame("finish", <<>>), Frame("DONE", <<>>) >>,
            !.ended = TRUE, !.terminals = @ + 1]

\* res.json(createResponse(respId, content))
ResJson(r, content) ==
  [r EXCEPT !.headersSent = TRUE, !.status = 200, !.json = content, !.ended = TRUE,
            !.terminals = @ + 1]

\* the catch block of handleChat
CatchResponse(r) ==
  IF ~r.headersSent
  THEN [r EXCEPT !.headersSent = TRUE, !.status = 500, !.isError = TRUE, !.ended = TRUE,
                 !.terminals = @ + 1]
  ELSE [r EXCEPT !.ended = TRUE, !.terminals = @ + 1]

Inc(m, k) == [m EXCEPT ![k] = @ + 1]

NewMetrics ==
  [ bridgeRequests |-> 0, bridgeErrors |-> 0, bridgeTimerEnds |-> 0,
    ollamaRequests |-> 0, ollamaErrors |-> 0, ollamaTimerEnds |-> 0,
    mcpRequests |-> 0, mcpErrors |-> 0, mcpTimerEnds |-> 0 ]

LlmCall(kind, messages, isStream) ==
  [kind |-> kind, messages |-> messages, stream |-> isStream]

\* mutant of AnalysisMessages: the user prompt goes ahead of the system prompt
AnalysisMessages_UserFirst(p) == << Msg("user", p), Msg("system", SYSTEM_PROMPT) >>
AnalysisMessages(p) == << Msg("system", SYSTEM_PROMPT), Msg("user", p) >>
AnswerMessages(p) == << Msg("user", p) >>
SummaryMessages(mcpResult) ==
  << Msg("system", SUMMARIZE_SYSTEM), Msg("assistant", mcpResult), Msg("user", SUMMARIZE_USER) >>

McpRpc(method, params) ==
  [jsonrpc |-> "2.0", id |-> "1", method |-> method, params |-> params]

\* crypto.randomUUID(): a fresh identifier for every request
NoId == 0
RandomUUID(n) == n

NoResponse == [id |-> NoId, object |-> "", created |-> 0, model |-> "",
               content |-> <<>>, finish_reason |-> ""]

LLM_MODEL == "deepseek-r1:1.5b"

\* mutant of CreateResponse: the content depends on how many requests the
\* instance has counted
CreateResponse_Counted(id, t, content) ==
  [id |-> id, object |-> "chat.completion", created |-> t, model |-> LLM_MODEL,
   content |-> IF metrics.bridgeRequests > 1 THEN LOREM ELSE content,
   finish_reason |-> "stop"]

\* createResponse(respId, content); `created` is read from the clock
CreateResponse(id, t, content) ==
  [id |-> id, object |-> "chat.completion", created |-> t, model |-> LLM_MODEL,
   content |-> content, finish_reason |-> "stop"]

\* what an external call of the request was answered
NoMcpReply == [hasResult |-> FALSE, result |-> ""]
LlmReplied(at, text) == [at |-> at, ok |-> TRUE, text |-> text, mcp |-> NoMcpReply]
McpReplied(r) == [at |-> "mcp", ok |-> TRUE, text |-> <<>>, mcp |-> r]
Rejected(at) == [at |-> at, ok |-> FALSE, text |-> <<>>, mcp |-> NoMcpReply]

NotClosed == [gone |-> FALSE, frames |-> 0, consumed |-> 0]

NoPrev == [valid |-> FALSE, response |-> NoResponse, res |-> NewRes, replies |-> <<>>,
           llmCalls |-> <<>>, mcpCalls |-> <<>>]

\* ----------------------------------------------------------- handleChat
InitA ==
  /\ mode \in {"LLM", "TEST"}
  /\ body \in Bodies
  /\ pc = "idle"
  /\ prompt = <<>>
  /\ stream = FALSE
  /\ analysisResponse = <<>>
  /\ parsed = NoParsed
  /\ askLLM = TRUE
  /\ finalResponse = <<>>
  /\ res = NewRes
  /\ llmCalls = <<>>
  /\ mcpCalls = <<>>
  /\ backend = <<>>
  /\ failure = "none"
  /\ metrics = NewMetrics
  /\ respId = NoId
  /\ response = NoResponse
  /\ replies = <<>>
  /\ consumed = <<>>
  /\ closed = NotClosed
  /\ run = 1
  /\ now = 0
  /\ prev = NoPrev

\* processPrompt "final response" with askLLM = TRUE: streamLLMResponse issues
\* the streamed chat, the non-streaming branch issues callLLM
StartAnswer(p, s, r, m) ==
  /\ llmCalls' = Append(llmCalls, LlmCall(IF s THEN "stream" ELSE "answer", AnswerMessages(p), s))
  /\ metrics' = Inc(m, "ollamaRequests")
  /\ res' = r
  /\ IF s THEN pc' = "stream" /\ backend' \in Backends
          ELSE pc' = "answer" /\ backend' = backend
  /\ UNCHANGED <<mcpCalls, response>>

\* processPrompt "final response" with askLLM = FALSE, then handleChat's
\* `if (!stream) res.json(response)` and its finally block
Finish(s, r, m, content) ==
  /\ res' = IF s THEN EndStream(WriteStreamChunk(r, content)) ELSE ResJson(r, content)
  /\ response' = IF s THEN response ELSE CreateResponse(respId, now, content)
  /\ metrics' = Inc(m, "bridgeTimerEnds")
  /\ pc' = "done"
  /\ UNCHANGED <<llmCalls, mcpCalls, backend>>

\* mutant of Throw: the catch block answers but the latency timer is not
\* stopped
Throw_TimerNotStopped(r, m) ==
  /\ res' = CatchResponse(r)
  /\ metrics' = Inc(m, "bridgeErrors")
  /\ pc' = "done"
  /\ UNCHANGED <<llmCalls, mcpCalls, backend, response>>
\* an exception reaching handleChat: catch block, then finally
Throw(r, m) ==
  /\ res' = CatchResponse(r)
  /\ metrics' = Inc(Inc(m, "bridgeErrors"), "bridgeTimerEnds")
  /\ pc' = "done"
  /\ UNCHANGED <<llmCalls, mcpCalls, backend, response>>

\* this.callMCP(method, params): the request goes out
StartMcp(method, r, m) ==
  /\ mcpCalls' = Append(mcpCalls, McpRpc(method, "{}"))
  /\ metrics' = Inc(m, "mcpRequests")
  /\ res' = r
  /\ pc' = "mcp"
  /\ UNCHANGED <<llmCalls, backend, response>>

\* handleChat from entry to its first await
HandleChat ==
  /\ pc = "idle"
  /\ LET p  == SelectPrompt(body)
         s  == body.stream = TRUE
         id == RandomUUID(run)
         r1 == IF s THEN SetupStream(res) ELSE res
         m1 == Inc(metrics, "bridgeRequests")
     IN /\ prompt' = p
        /\ stream' = s
        /\ respId' = id
        /\ IF mode = "TEST"
           THEN \* processPrompt returns createResponse; only !stream sends it
                /\ res' = IF s THEN r1 ELSE ResJson(r1, LOREM)
                /\ response' = CreateResponse(id, now, LOREM)
                /\ metrics' = Inc(m1, "bridgeTimerEnds")
                /\ pc' = "done"
                /\ UNCHANGED <<parsed, llmCalls, mcpCalls, backend>>
           ELSE IF IncludesMcp(p)
           THEN IF EndsWithTools(p)
                THEN /\ parsed' = [ok |-> TRUE, action |-> "mcp", method |-> "tools/list", text |-> <<>>]
                     /\ StartMcp("tools/list", r1, m1)
                ELSE /\ llmCalls' = Append(llmCalls, LlmCall("analysis", AnalysisMessages(p), FALSE))
                     /\ metrics' = Inc(m1, "ollamaRequests")
                     /\ res' = r1
                     /\ pc' = "analysis"
                     /\ UNCHANGED <<parsed, mcpCalls, backend, response>>
           ELSE /\ StartAnswer(p, s, r1, m1)
                /\ UNCHANGED parsed
  /\ UNCHANGED <<mode, body, analysisResponse, askLLM, finalResponse, failure, replies>>
  /\ UNCHANGED <<streamHist, runHist>>
  /\ UNCHANGED othersA

\* the analysis callLLM resolves: JSON.parse with fallback, then MCP or answer
AnalysisReturns ==
  /\ pc = "analysis"
  /\ \E reply \in LlmReplies :
       LET j  == JSONparse(reply)
           pd == IF j.ok THEN j
                 ELSE [ok |-> TRUE, action |-> "respond", method |-> "", text |-> prompt]
           m1 == Inc(metrics, "ollamaTimerEnds")
       IN /\ analysisResponse' = reply
          /\ replies' = Append(replies, LlmReplied("analysis", reply))
          /\ parsed' = pd
          /\ IF pd.action = "mcp" /\ pd.method # ""
             THEN StartMcp(pd.method, res, m1)
             ELSE StartAnswer(prompt, stream, res, m1)
  /\ UNCHANGED <<mode, body, prompt, stream, askLLM, finalResponse, failure, respId>>
  /\ UNCHANGED <<streamHist, runHist>>
  /\ UNCHANGED othersA

\* callLLM rejects: its catch counts and rethrows
LlmFails(at) ==
  /\ pc = at
  /\ failure' = at
  /\ replies' = Append(replies, Rejected(at))
  /\ Throw(res, Inc(Inc(metrics, "ollamaErrors"), "ollamaTimerEnds"))
  /\ UNCHANGED <<mode, body, analysisResponse, prompt, stream, parsed, askLLM, finalResponse,
                 respId>>
  /\ UNCHANGED <<streamHist, runHist>>
  /\ UNCHANGED othersA

AnalysisFails == LlmFails("analysis")

\* callMCP resolves with a 2xx JSON body
McpReturns ==
  /\ pc = "mcp"
  /\ \E reply \in McpReplies :
       LET mcpResult == StringifyResult(reply)
           m1 == Inc(metrics, "mcpTimerEnds")
       IN /\ replies' = Append(replies, McpReplied(reply))
          /\ IF EndsWithTools(prompt)
             THEN /\ finalResponse' = mcpResult
                  /\ askLLM' = FALSE
                  /\ Finish(stream, res, m1, mcpResult)
             ELSE /\ llmCalls' = Append(llmCalls, LlmCall("summary", SummaryMessages(mcpResult), FALSE))
                  /\ metrics' = Inc(m1, "ollamaRequests")
                  /\ pc' = "summary"
                  /\ UNCHANGED <<finalResponse, askLLM, res, mcpCalls, backend, response>>
  /\ UNCHANGED <<mode, body, analysisResponse, prompt, stream, parsed, failure, respId>>
  /\ UNCHANGED <<streamHist, runHist>>
  /\ UNCHANGED othersA

\* callMCP throws: fetch rejects, !res.ok, or the body is not JSON
McpFails ==
  /\ pc = "mcp"
  /\ failure' = "mcp"
  /\ replies' = Append(replies, Rejected("mcp"))
  /\ Throw(res, Inc(Inc(metrics, "mcpErrors"), "mcpTimerEnds"))
  /\ UNCHANGED <<mode, body, analysisResponse, prompt, stream, parsed, askLLM, finalResponse,
                 respId>>
  /\ UNCHANGED <<streamHist, runHist>>
  /\ UNCHANGED othersA

\* the summarising callLLM resolves
SummaryReturns ==
  /\ pc = "summary"
  /\ \E reply \in AnswerReplies :
       /\ finalResponse' = reply
       /\ replies' = Append(replies, LlmReplied("summary", reply))
       /\ askLLM' = FALSE
       /\ Finish(stream, res, Inc(metrics, "ollamaTimerEnds"), reply)
  /\ UNCHANGED <<mode, body, analysisResponse, prompt, stream, parsed, failure, respId>>
  /\ UNCHANGED <<streamHist, runHist>>
  /\ UNCHANGED othersA

SummaryFails == LlmFails("summary")

\* the non-streaming answer callLLM resolves
AnswerReturns ==
  /\ pc = "answer"
  /\ \E reply \in AnswerReplies :
       /\ finalResponse' = reply
       /\ replies' = Append(replies, LlmReplied("answer", reply))
       /\ Finish(FALSE, res, Inc(metrics, "ollamaTimerEnds"), reply)
  /\ UNCHANGED <<mode, body, analysisResponse, prompt, stream, parsed, askLLM, failure, respId>>
  /\ UNCHANGED <<streamHist, runHist>>
  /\ UNCHANGED othersA

AnswerFails == LlmFails("answer")

\* mutant of StreamChunk: a delta is written for every chunk, empty or not
StreamChunk_EveryChunk ==
  /\ pc = "stream"
  /\ backend # <<>>
  /\ LET chunk == Head(backend)
         r1 == WriteStreamChunk(res, chunk.content)
     IN /\ consumed' = Append(consumed, chunk)
        /\ IF chunk.done
           THEN /\ res' = EndStream(r1)
                /\ metrics' = Inc(Inc(metrics, "ollamaTimerEnds"), "bridgeTimerEnds")
                /\ pc' = "done"
           ELSE /\ res' = r1
                /\ UNCHANGED <<metrics, pc>>
  /\ backend' = Tail(backend)
  /\ UNCHANGED <<mode, body, analysisResponse, prompt, stream, parsed, askLLM, finalResponse,
                 llmCalls, mcpCalls, failure, respId, response, replies, closed>>
  /\ UNCHANGED runHist
  /\ UNCHANGED othersA

\* streamLLMResponse: one iteration of the for-await loop
StreamChunk ==
  /\ pc = "stream"
  /\ backend # <<>>
  /\ LET chunk == Head(backend)
         r1 == IF chunk.content # <<>> THEN WriteStreamChunk(res, chunk.content) ELSE res
     IN /\ consumed' = Append(consumed, chunk)
        /\ IF chunk.done
           THEN \* break; finally timerEnd(); endStream; handleChat finally
                /\ res' = EndStream(r1)
                /\ metrics' = Inc(Inc(metrics, "ollamaTimerEnds"), "bridgeTimerEnds")
                /\ pc' = "done"
           ELSE /\ res' = r1
                /\ UNCHANGED <<metrics, pc>>
  /\ backend' = Tail(backend)
  /\ UNCHANGED <<mode, body, analysisResponse, prompt, stream, parsed, askLLM, finalResponse,
                 llmCalls, mcpCalls, failure, respId, response, replies, closed>>
  /\ UNCHANGED runHist
  /\ UNCHANGED othersA

\* streamLLMResponse: the backend iterator is exhausted
StreamEnds ==
  /\ pc = "stream"
  /\ backend = <<>>
  /\ res' = EndStream(res)
  /\ metrics' = Inc(Inc(metrics, "ollamaTimerEnds"), "bridgeTimerEnds")
  /\ pc' = "done"
  /\ UNCHANGED <<mode, body, analysisResponse, prompt, stream, parsed, askLLM, finalResponse,
                 llmCalls, mcpCalls, backend, failure, respId, response, replies>>
  /\ UNCHANGED <<streamHist, runHist>>
  /\ UNCHANGED othersA

\* streamLLMResponse: ollama.chat or the iteration throws; caught locally
StreamFails ==
  /\ pc = "stream"
  /\ failure' = "stream"
  /\ res' = EndStream(WriteStreamChunk(res, STREAM_ERROR))
  /\ metrics' = Inc(Inc(Inc(metrics, "ollamaErrors"), "ollamaTimerEnds"), "bridgeTimerEnds")
  /\ pc' = "done"
  /\ UNCHANGED <<mode, body, analysisResponse, prompt, stream, parsed, askLLM, finalResponse,
                 llmCalls, mcpCalls, backend, respId, response, replies>>
  /\ UNCHANGED <<streamHist, runHist>>
  /\ UNCHANGED othersA

\* the client closes the connection while streamLLMResponse is suspended in
\* its for-await loop: the handler registers no 'close' listener and never
\* reads res.writableEnded / res.destroyed, so none of its state changes
ClientDisconnects ==
  /\ pc = "stream"
  /\ ~closed.gone
  /\ closed' = [gone |-> TRUE, frames |-> Len(res.frames), consumed |-> Len(consumed)]
  /\ UNCHANGED <<mode, body, pc, prompt, stream, analysisResponse, parsed, askLLM,
                 finalResponse, res, llmCalls, mcpCalls, backend, failure, metrics,
                 respId, response, replies, consumed>>
  /\ UNCHANGED runHist
  /\ UNCHANGED othersA

\* the same body is posted again to the same BridgeService instance once the
\* previous non-streaming request is over: handleChat starts with fresh
\* locals and a fresh res; this.metrics is what the instance keeps
NewRequest ==
  /\ pc = "done"
  /\ ~stream
  /\ run < MaxRuns
  /\ prev' = [valid |-> TRUE, response |-> response, res |-> res, replies |-> replies,
              llmCalls |-> llmCalls, mcpCalls |-> mcpCalls]
  /\ run' = run + 1
  /\ now' \in {now, now + 1}
  /\ pc' = "idle"
  /\ prompt' = <<>>
  /\ stream' = FALSE
  /\ analysisResponse' = <<>>
  /\ parsed' = NoParsed
  /\ askLLM' = TRUE
  /\ finalResponse' = <<>>
  /\ res' = NewRes
  /\ llmCalls' = <<>>
  /\ mcpCalls' = <<>>
  /\ failure' = "none"
  /\ respId' = NoId
  /\ response' = NoResponse
  /\ replies' = <<>>
  /\ UNCHANGED <<mode, body, backend, metrics>>
  /\ UNCHANGED streamHist
  /\ UNCHANGED othersA

NextA ==
  \/ HandleChat
  \/ AnalysisReturns \/ AnalysisFails
  \/ McpReturns \/ McpFails
  \/ SummaryReturns \/ SummaryFails
  \/ AnswerReturns \/ AnswerFails
  \/ StreamChunk \/ StreamEnds \/ StreamFails
  \/ ClientDisconnects
  \/ NewRequest


\* ---------------------------------------------------- Part I : properties
LastTwoAreFinishDone(frames) ==
  /\ Len(frames) >= 2
  /\ frames[Len(frames) - 1] = Frame("finish", <<>>)
  /\ frames[Len(frames)] = Frame("DONE", <<>>)

ErrorDeltas(frames) == { i \in 1..Len(frames) : frames[i] = Frame("delta", STREAM_ERROR) }

\* C1: for every request with stream = true, on every path of handleChat /
\* processPrompt, once the role chunk is written the response ends with a
\* finish chunk immediately followed by the [DONE] frame; when the handler
\* has returned the connection is neither left open nor ended without them.
C1_StreamEndsWithFinishDone ==
  (pc = "done" /\ stream /\ Len(res.frames) >= 1 /\ res.frames[1].type = "role")
    => (res.ended /\ LastTwoAreFinishDone(res.frames))

\* C2: in streaming mode a failure of any LLM or tool call of the request
\* (analysis, MCP, summary, streamed answer) yields exactly one error-content
\* delta chunk followed by the finish chunk and [DONE].
C2_StreamFailureEmitsOneErrorDelta ==
  (pc = "done" /\ stream /\ failure # "none")
    => /\ Cardinality(ErrorDeltas(res.frames)) = 1
       /\ Len(res.frames) >= 3
       /\ res.frames[Len(res.frames) - 2] = Frame("delta", STREAM_ERROR)
       /\ LastTwoAreFinishDone(res.frames)
       /\ res.ended

\* C3: a successful streaming response (no external call failed) is exactly
\* role chunk, zero or more content deltas, finish chunk, [DONE], after which
\* the connection is closed.
C3_SuccessfulStreamIsFourPart ==
  (pc = "done" /\ stream /\ failure = "none")
    => /\ res.ended
       /\ Len(res.frames) >= 3
       /\ res.frames[1] = Frame("role", <<>>)
       /\ \A i \in 2..(Len(res.frames) - 2) : res.frames[i].type = "delta"
       /\ LastTwoAreFinishDone(res.frames)


\* ============================================================================
\*  Part II : tool-call revision of BridgeService (handleChat / _checkMCP),
\*            McpHelper and GrafanaMcp
\* ============================================================================


\* ----------------------------------------------------------------- text
LINE_TEST == "#llm:test"
LINE_MCP == "#mcp:grafana Show all dashboards names."
LINE_HELLO == "Hello"

\* lastLine.startsWith("#llm:test")
StartsWithTest(line) == line = LINE_TEST

\* lastLine.startsWith("#mcp:grafana")
StartsWithMcp(line) == line \in {LINE_MCP, SENTINEL_TOOLS, SENTINEL_SHOW}

\* content.split("\n") : the empty string splits into one empty line
SplitLines(content) == IF content = <<>> THEN <<"">> ELSE content

\* mutant of LastLine: the first line of the message is inspected
LastLine_FirstLine(content) == SplitLines(content)[1]

\* lines[lines.length - 1]
LastLine(content) == SplitLines(content)[Len(SplitLines(content))]

INVALID_PROMPT == <<"Invalid prompt">>
TOOL_INSTRUCTION ==
  <<"Respond to the user's latest interaction based on the result from the previous tool.">>

\* ------------------------------------------------------------- messages
NoResult == [error |-> <<>>, value |-> <<>>]
NoPayload == [key |-> "", inner |-> NoResult]

ChatMsg(role, content, name, tool_calls, payload) ==
  [role |-> role, content |-> content, name |-> name,
   tool_calls |-> tool_calls, payload |-> payload]

UserMsg(lines) == ChatMsg("user", lines, "", <<>>, NoPayload)
AssistantMsg(lines) == ChatMsg("assistant", lines, "", <<>>, NoPayload)

Inbounds ==
  { <<>>,
    << UserMsg(<<LINE_HELLO>>) >>,
    << UserMsg(<<LINE_TEST>>) >>,
    << UserMsg(<<LINE_MCP>>) >>,
    << UserMsg(<<LINE_HELLO, LINE_MCP>>) >>,
    << UserMsg(<<LINE_MCP, LINE_HELLO>>) >>,
    << UserMsg(<<LINE_HELLO>>), AssistantMsg(<<"Hi">>), UserMsg(<<LINE_MCP>>) >>,
    << UserMsg(<<LINE_MCP>>), AssistantMsg(<<"Hi">>), UserMsg(<<LINE_HELLO>>) >>,
    << UserMsg(<<LINE_HELLO>>), AssistantMsg(<<LINE_MCP>>) >>,
    << UserMsg(<<LINE_TEST>>), AssistantMsg(<<"Hi">>) >>,
    << UserMsg(<<LINE_HELLO, LINE_TEST>>) >>,
    << UserMsg(<<LINE_TEST, LINE_HELLO>>) >> }

\* ------------------------------------------------------------ tool catalog
\* McpHelper.constructor and GrafanaMcp.constructor: this.tools, by name
CATALOG ==
  << "getToolsList", "getGrafanaVersion", "getDashboards", "getMetricsNames",
     "getMetrics", "getDatasources", "getDashboard", "getMetric" >>

NULL_TOOLS == <<>>

ToolCall(name, uid) == [name |-> name, uid |-> uid]

\* ToolCalls an LLM response may carry
ToolCallSet ==
  { ToolCall("getGrafanaVersion", ""), ToolCall("getDashboards", ""),
    ToolCall("getDashboard", "abc"), ToolCall("getToolsList", ""),
    ToolCall("restartGrafana", "") }

OpinionReplies ==
  [ content : { <<>>, <<"No tool is needed.">> },
    tool_calls : SeqsUpTo(ToolCallSet, MaxToolCalls) ]

\* -------------------------------------------------------------- McpHelper
\* mutant of Rpc: the envelope is numbered by the method and the arguments
\* are not carried over
Rpc_Rewritten(method, name, arguments) ==
  [jsonrpc |-> "2.0", id |-> method, method |-> method,
   params |-> [name |-> name, arguments |-> <<>>]]
Rpc(method, name, arguments) ==
  [jsonrpc |-> "2.0", id |-> "1", method |-> method,
   params |-> [name |-> name, arguments |-> arguments]]

\* McpHelper.toolCall(tool) : methodCall("tools/call", tool)
ToolCallRpc(name, arguments) == Rpc("tools/call", name, arguments)

\* McpHelper.getToolsList() : methodCall("tools/list", {})
GetToolsListRpc == Rpc("tools/list", "", <<>>)

Local(value) == [local |-> TRUE, value |-> value, rpc |-> GetToolsListRpc]
Remote(rpc) == [local |-> FALSE, value |-> <<>>, rpc |-> rpc]

\* McpHelper.executeTool
McpExecuteTool(toolCall) ==
  IF toolCall.name = "getToolsList" THEN Remote(GetToolsListRpc)
  ELSE Local(<<"function", toolCall.name>>)

\* mutant of ExecuteToolTarget: the getDashboards branch is missing, the
\* call falls through to McpHelper.executeTool
ExecuteToolTarget_NoDashboards(toolCall) ==
  CASE toolCall.name = "getMetricsNames" ->
         Remote(ToolCallRpc("list_prometheus_metric_names", <<"datasourceUid", "Prometheus">>))
    [] toolCall.name = "getMetrics" ->
         Remote(ToolCallRpc("list_prometheus_metric_metadata",
                            <<"datasourceUid", "Prometheus", "metric", "*">>))
    [] toolCall.name = "getDatasources" ->
         Remote(ToolCallRpc("list_datasources", <<>>))
    [] toolCall.name = "getDashboard" ->
         Remote(ToolCallRpc("get_dashboard_summary", <<"uid", toolCall.uid>>))
    [] toolCall.name = "getMetric" ->
         Remote(ToolCallRpc("list_prometheus_metric_metadata",
                            <<"datasourceUid", "Prometheus", "metric", toolCall.uid>>))
    [] toolCall.name = "getGrafanaVersion" ->
         Local(<<"version", "latest">>)
    [] OTHER -> McpExecuteTool(toolCall)
\* GrafanaMcp.executeTool (with the get* methods it calls)
ExecuteToolTarget(toolCall) ==
  CASE toolCall.name = "getDashboards" ->
         Remote(ToolCallRpc("search_dashboards", <<"search", "*">>))
    [] toolCall.name = "getMetricsNames" ->
         Remote(ToolCallRpc("list_prometheus_metric_names", <<"datasourceUid", "Prometheus">>))
    [] toolCall.name = "getMetrics" ->
         Remote(ToolCallRpc("list_prometheus_metric_metadata",
                            <<"datasourceUid", "Prometheus", "metric", "*">>))
    [] toolCall.name = "getDatasources" ->
         Remote(ToolCallRpc("list_datasources", <<>>))
    [] toolCall.name = "getDashboard" ->
         Remote(ToolCallRpc("get_dashboard_summary", <<"uid", toolCall.uid>>))
    [] toolCall.name = "getMetric" ->
         Remote(ToolCallRpc("list_prometheus_metric_metadata",
                            <<"datasourceUid", "Prometheus", "metric", toolCall.uid>>))
    [] toolCall.name = "getGrafanaVersion" ->
         Local(<<"version", "latest">>)
    [] OTHER -> McpExecuteTool(toolCall)

\* what the tool server does with one request:
\*   reached = FALSE : fetch rejects (server unreachable)
\*   otherwise an HTTP response: ok (2xx), body parses as JSON, body has .error
ServerReplies ==
  { [reached |-> FALSE, ok |-> FALSE, json |-> FALSE, rpcError |-> FALSE],
    [reached |-> TRUE,  ok |-> TRUE,  json |-> TRUE,  rpcError |-> FALSE],
    [reached |-> TRUE,  ok |-> TRUE,  json |-> TRUE,  rpcError |-> TRUE],
    [reached |-> TRUE,  ok |-> FALSE, json |-> TRUE,  rpcError |-> FALSE],
    [reached |-> TRUE,  ok |-> FALSE, json |-> FALSE, rpcError |-> FALSE] }

\* McpHelper.methodCall throws when fetch rejects or response.json() throws
MethodCallThrowsOn(reply) == ~reply.reached \/ ~reply.json

\* McpHelper.methodCall: the value it returns when it does not throw
MethodCallResult(rpc, reply) ==
  IF ~reply.ok THEN [error |-> <<"MCP Server connection error">>, value |-> <<>>]
  ELSE IF reply.rpcError THEN [error |-> <<"rpc error message">>, value |-> <<>>]
  ELSE [error |-> <<>>, value |-> <<"rpc result", rpc.method, rpc.params.name>>]

\* McpHelper.executeTools: the entry pushed for one ToolCall; it has the
\* properties role, name, content and result, and no property `error`
ResultEntry(toolCall, result) ==
  [role |-> "tool", name |-> toolCall.name,
   content |-> IF result.error # <<>> THEN "error" ELSE "result",
   result |-> result]

\* JavaScript property read: undefined (here the empty text) when absent
ErrorOf(entry) == IF "error" \in DOMAIN entry THEN entry.error ELSE <<>>

\* _checkMCP: the tool-role message built from one entry of results
ToolMessage(entry) ==
  ChatMsg("tool", <<>>, entry.name, <<>>,
          IF ErrorOf(entry) # <<>>
          THEN [key |-> "error", inner |-> [error |-> ErrorOf(entry), value |-> <<>>]]
          ELSE [key |-> "result", inner |-> entry.result])

RECURSIVE ToolMessages(_)
\* _checkMCP: `for (const result of results)` building the messages in order
ToolMessages(rs) ==
  IF rs = <<>> THEN <<>> ELSE <<ToolMessage(rs[1])>> \o ToolMessages(Tail(rs))

\* _checkMCP: the assistant message pushed before executeTools
AssistantToolCallsMsg(tool_calls) == ChatMsg("assistant", <<>>, "", tool_calls, NoPayload)

SystemInstructionMsg == ChatMsg("system", TOOL_INSTRUCTION, "", <<>>, NoPayload)

\* mutant of PushToolCalls: the assistant message takes the place of the
\* last message of the conversation
PushToolCalls_Overwrite(h) ==
  [h EXCEPT !.prompt.messages =
      SubSeq(@, 1, Len(@) - 1) \o <<AssistantToolCallsMsg(h.answer.tool_calls)>>]

\* _checkMCP: helper.prompt.messages.push({role: "assistant", tool_calls})
PushToolCalls(h) ==
  [h EXCEPT !.prompt.messages = Append(@, AssistantToolCallsMsg(h.answer.tool_calls))]

\* mutant of AfterTools: the catalog stays attached (prompt.tools not reset)
AfterTools_KeepCatalog(h, rs) ==
  [h EXCEPT !.prompt.messages = @ \o ToolMessages(rs) \o <<SystemInstructionMsg>>,
            !.answer.content = <<>>]

\* _checkMCP after executeTools returned: tool messages, system instruction,
\* answer.content = "", prompt.tools = null
AfterTools(h, rs) ==
  [h EXCEPT !.prompt.messages = @ \o ToolMessages(rs) \o <<SystemInstructionMsg>>,
            !.answer.content = <<>>,
            !.prompt.tools = NULL_TOOLS]

Ev(e, i, name) == [ev |-> e, i |-> i, name |-> name]

ChatRequest(kind, h) ==
  [kind |-> kind, messages |-> h.prompt.messages, tools |-> h.prompt.tools]

NewResT == [headersSent |-> FALSE, status |-> 0, content |-> <<>>, ended |-> FALSE]

\* OllamaHelper.getHelperFromRequest
GetHelperFromRequest(messages) ==
  [prompt |-> [messages |-> messages, tools |-> NULL_TOOLS],
   answer |-> [content |-> <<>>, tool_calls |-> <<>>]]

\* OllamaHelper.callLLM / answerChat: the reply's content and tool_calls
\* are stored in helper.answer
StoreReply(h, reply) ==
  [h EXCEPT !.answer.content = reply.content, !.answer.tool_calls = reply.tool_calls]

InitB ==
  /\ inbound \in Inbounds
  /\ owaspOk \in BOOLEAN
  /\ helper = GetHelperFromRequest(<<>>)
  /\ tpc = "idle"
  /\ toolIdx = 1
  /\ results = <<>>
  /\ inflight = <<>>
  /\ rpcLog = <<>>
  /\ outcomes = <<>>
  /\ chatLog = <<>>
  /\ trace = <<>>
  /\ resT = NewResT
  /\ metricsT = NewMetrics

\* handleChat: `await this.ollama.answerChat(helper)` is entered.
\* OllamaHelper.answerChat: a resolved answer.content is rendered as it is;
\* an empty one is asked of the LLM with helper.prompt (messages and tools)
AnswerChat(h, m, t) ==
  /\ helper' = h
  /\ IF h.answer.content # <<>>
     THEN /\ resT' = [resT EXCEPT !.headersSent = TRUE, !.status = 200,
                                  !.content = h.answer.content, !.ended = TRUE]
          /\ metricsT' = Inc(Inc(Inc(m, "ollamaRequests"), "ollamaTimerEnds"), "bridgeTimerEnds")
          /\ tpc' = "done"
          /\ trace' = t
          /\ UNCHANGED chatLog
     ELSE /\ chatLog' = Append(chatLog, ChatRequest("answer", h))
          /\ trace' = Append(t, Ev("answer.start", 0, ""))
          /\ metricsT' = Inc(m, "ollamaRequests")
          /\ tpc' = "answer"
          /\ UNCHANGED resT

\* handleChat's catch and finally blocks
ThrowT(m) ==
  /\ resT' = IF ~resT.headersSent
             THEN [resT EXCEPT !.headersSent = TRUE, !.status = 500, !.ended = TRUE]
             ELSE [resT EXCEPT !.ended = TRUE]
  /\ metricsT' = Inc(Inc(m, "bridgeErrors"), "bridgeTimerEnds")
  /\ tpc' = "done"

\* mutant of TestReply: an answer already set (the OWASP refusal) is kept
TestReply_KeepAnswer(h) ==
  IF h.answer.content # <<>> THEN h ELSE [h EXCEPT !.answer.content = LOREM]

\* _checkMCP, test sentinel: helper.answer.content = "Lorem ipsum dolor sit amet"
TestReply(h) == [h EXCEPT !.answer.content = LOREM]

\* handleChat from entry, through _checkOWASP and _checkMCP, to the first await
HandleChatTools ==
  /\ tpc = "idle"
  /\ LET h0 == GetHelperFromRequest(inbound)
         h1 == IF owaspOk THEN h0 ELSE [h0 EXCEPT !.answer.content = INVALID_PROMPT]
         ms == h1.prompt.messages
         m1 == Inc(metricsT, "bridgeRequests")
     IN IF Len(ms) > 0 /\ StartsWithTest(LastLine(ms[Len(ms)].content))
        THEN AnswerChat(TestReply(h1), m1, trace)
        ELSE IF Len(ms) > 0 /\ StartsWithMcp(LastLine(ms[Len(ms)].content))
        THEN LET h2 == [h1 EXCEPT !.prompt.tools = CATALOG]
             IN /\ helper' = h2
                /\ chatLog' = Append(chatLog, ChatRequest("opinion", h2))
                /\ trace' = Append(trace, Ev("opinion.start", 0, ""))
                /\ metricsT' = Inc(m1, "ollamaRequests")
                /\ tpc' = "opinion"
                /\ UNCHANGED resT
        ELSE AnswerChat(h1, m1, trace)
  /\ UNCHANGED <<inbound, owaspOk, toolIdx, results, inflight, rpcLog, outcomes>>
  /\ UNCHANGED othersB

\* _checkMCP: the opinion call resolves (OllamaHelper.callLLM stores the
\* reply's content and tool_calls in helper.answer); with tool_calls the
\* assistant message is pushed and executeTools is entered
OpinionReturns ==
  /\ tpc = "opinion"
  /\ \E reply \in OpinionReplies :
       LET h1 == StoreReply(helper, reply)
           m1 == Inc(metricsT, "ollamaTimerEnds")
           t1 == Append(trace, Ev("opinion.end", 0, ""))
       IN IF Len(h1.answer.tool_calls) > 0
          THEN /\ helper' = PushToolCalls(h1)
               /\ metricsT' = Inc(m1, "mcpRequests")
               /\ trace' = Append(t1, Ev("batch.start", 0, ""))
               /\ tpc' = "tools"
               /\ toolIdx' = 1
               /\ results' = <<>>
               /\ UNCHANGED <<chatLog, resT>>
          ELSE /\ AnswerChat(h1, m1, t1)
               /\ UNCHANGED <<toolIdx, results>>
  /\ UNCHANGED <<inbound, owaspOk, inflight, rpcLog, outcomes>>
  /\ UNCHANGED othersB

\* mutant of OpinionFails: the rejected opinion call is issued once more
OpinionFails_Retry ==
  /\ tpc = "opinion"
  /\ Len(chatLog) < 2
  /\ trace' = trace \o << Ev("opinion.fail", 0, ""), Ev("opinion.start", 0, "") >>
  /\ chatLog' = Append(chatLog, ChatRequest("opinion", helper))
  /\ metricsT' = Inc(Inc(Inc(metricsT, "ollamaErrors"), "ollamaTimerEnds"), "ollamaRequests")
  /\ UNCHANGED <<inbound, owaspOk, helper, tpc, toolIdx, results, inflight, rpcLog,
                 outcomes, resT>>
  /\ UNCHANGED othersB

\* _checkMCP: the opinion call rejects; counted, rethrown to handleChat
OpinionFails ==
  /\ tpc = "opinion"
  /\ trace' = Append(trace, Ev("opinion.fail", 0, ""))
  /\ ThrowT(Inc(Inc(metricsT, "ollamaErrors"), "ollamaTimerEnds"))
  /\ UNCHANGED <<inbound, owaspOk, helper, toolIdx, results, inflight, rpcLog,
                 outcomes, chatLog>>
  /\ UNCHANGED othersB

\* mutant of ExecuteTool: a remote tool is dispatched without awaiting its
\* reply, the loop going on to the next ToolCall at once
ExecuteTool_Parallel ==
  /\ tpc = "tools"
  /\ toolIdx <= Len(helper.answer.tool_calls)
  /\ LET toolCall == helper.answer.tool_calls[toolIdx]
         target == ExecuteToolTarget(toolCall)
     IN IF target.local
        THEN /\ results' = Append(results, ResultEntry(toolCall, [error |-> <<>>, value |-> target.value]))
             /\ trace' = trace \o << Ev("tool.start", toolIdx, toolCall.name),
                                     Ev("tool.end", toolIdx, toolCall.name) >>
             /\ UNCHANGED <<inflight, rpcLog>>
        ELSE /\ inflight' = Append(inflight, target.rpc)
             /\ rpcLog' = Append(rpcLog, target.rpc)
             /\ trace' = Append(trace, Ev("tool.start", toolIdx, toolCall.name))
             /\ UNCHANGED results
  /\ toolIdx' = toolIdx + 1
  /\ UNCHANGED <<inbound, owaspOk, helper, tpc, outcomes, chatLog, resT, metricsT>>
  /\ UNCHANGED othersB

\* executeTools: one iteration of the for-loop reaches executeTool; a local
\* tool yields its value, a remote one sends its request and awaits the reply
ExecuteTool ==
  /\ tpc = "tools"
  /\ toolIdx <= Len(helper.answer.tool_calls)
  /\ LET toolCall == helper.answer.tool_calls[toolIdx]
         target == ExecuteToolTarget(toolCall)
     IN IF target.local
        THEN /\ results' = Append(results, ResultEntry(toolCall, [error |-> <<>>, value |-> target.value]))
             /\ toolIdx' = toolIdx + 1
             /\ trace' = trace \o << Ev("tool.start", toolIdx, toolCall.name),
                                     Ev("tool.end", toolIdx, toolCall.name) >>
             /\ UNCHANGED <<tpc, inflight, rpcLog>>
        ELSE /\ inflight' = Append(inflight, target.rpc)
             /\ rpcLog' = Append(rpcLog, target.rpc)
             /\ trace' = Append(trace, Ev("tool.start", toolIdx, toolCall.name))
             /\ tpc' = "fetch"
             /\ UNCHANGED <<results, toolIdx>>
  /\ UNCHANGED <<inbound, owaspOk, helper, outcomes, chatLog, resT, metricsT>>
  /\ UNCHANGED othersB

\* mutant of MethodCallReturns: the tool message is pushed to the
\* conversation as soon as its call resolves
MethodCallReturns_Incremental ==
  /\ tpc = "fetch"
  /\ inflight # <<>>
  /\ \E reply \in ServerReplies :
       /\ ~MethodCallThrowsOn(reply)
       /\ outcomes' = Append(outcomes, reply)
       /\ LET entry == ResultEntry(helper.answer.tool_calls[toolIdx],
                                   MethodCallResult(Head(inflight), reply))
          IN /\ results' = results
             /\ helper' = [helper EXCEPT !.prompt.messages = Append(@, ToolMessage(entry))]
  /\ inflight' = Tail(inflight)
  /\ trace' = Append(trace, Ev("tool.end", toolIdx, helper.answer.tool_calls[toolIdx].name))
  /\ toolIdx' = toolIdx + 1
  /\ tpc' = "tools"
  /\ UNCHANGED <<inbound, owaspOk, rpcLog, chatLog, resT, metricsT>>
  /\ UNCHANGED othersB

\* methodCall resolves: the entry for this ToolCall joins results
MethodCallReturns ==
  /\ tpc = "fetch"
  /\ inflight # <<>>
  /\ \E reply \in ServerReplies :
       /\ ~MethodCallThrowsOn(reply)
       /\ outcomes' = Append(outcomes, reply)
       /\ results' = Append(results,
                       ResultEntry(helper.answer.tool_calls[toolIdx],
                                   MethodCallResult(Head(inflight), reply)))
  /\ inflight' = Tail(inflight)
  /\ trace' = Append(trace, Ev("tool.end", toolIdx, helper.answer.tool_calls[toolIdx].name))
  /\ toolIdx' = toolIdx + 1
  /\ tpc' = "tools"
  /\ UNCHANGED <<inbound, owaspOk, helper, rpcLog, chatLog, resT, metricsT>>
  /\ UNCHANGED othersB

\* methodCall throws: out of executeTools, through _checkMCP's catch
\* (counted, rethrown) into handleChat's catch
MethodCallThrows ==
  /\ tpc = "fetch"
  /\ inflight # <<>>
  /\ \E reply \in ServerReplies :
       /\ MethodCallThrowsOn(reply)
       /\ outcomes' = Append(outcomes, reply)
  /\ inflight' = Tail(inflight)
  /\ trace' = Append(trace, Ev("tool.fail", toolIdx, helper.answer.tool_calls[toolIdx].name))
  /\ ThrowT(Inc(Inc(metricsT, "mcpErrors"), "mcpTimerEnds"))
  /\ UNCHANGED <<inbound, owaspOk, helper, toolIdx, results, rpcLog, chatLog>>
  /\ UNCHANGED othersB

\* mutant of ExecuteToolsDone: after the batch the LLM is asked for its
\* opinion again, catalog attached (tool chaining)
ExecuteToolsDone_Rehop ==
  /\ tpc = "tools"
  /\ toolIdx > Len(helper.answer.tool_calls)
  /\ LET h1 == [helper EXCEPT !.prompt.messages = @ \o ToolMessages(results)]
     IN /\ helper' = h1
        /\ chatLog' = Append(chatLog, ChatRequest("opinion", h1))
        /\ trace' = trace \o << Ev("batch.end", 0, ""), Ev("opinion.start", 0, "") >>
        /\ metricsT' = Inc(Inc(metricsT, "mcpTimerEnds"), "ollamaRequests")
        /\ tpc' = "opinion"
        /\ UNCHANGED resT
  /\ UNCHANGED <<inbound, owaspOk, toolIdx, results, inflight, rpcLog, outcomes>>
  /\ UNCHANGED othersB

\* executeTools returns: _checkMCP appends the results and returns, and
\* handleChat enters answerChat
ExecuteToolsDone ==
  /\ tpc = "tools"
  /\ toolIdx > Len(helper.answer.tool_calls)
  /\ AnswerChat(AfterTools(helper, results), Inc(metricsT, "mcpTimerEnds"),
                Append(trace, Ev("batch.end", 0, "")))
  /\ UNCHANGED <<inbound, owaspOk, toolIdx, results, inflight, rpcLog, outcomes>>
  /\ UNCHANGED othersB

\* replies of the final-answer call: text, possibly with tool_calls
FinalReplies ==
  [ content : { <<"Here is the answer.">> },
    tool_calls : SeqsUpTo(ToolCallSet, 1) ]

\* answerChat: the final-answer call resolves and the answer is rendered;
\* handleChat then returns
AnswerChatReturns ==
  /\ tpc = "answer"
  /\ \E reply \in FinalReplies :
       /\ helper' = StoreReply(helper, reply)
       /\ resT' = [resT EXCEPT !.headersSent = TRUE, !.status = 200,
                               !.content = reply.content, !.ended = TRUE]
  /\ trace' = Append(trace, Ev("answer.end", 0, ""))
  /\ metricsT' = Inc(Inc(metricsT, "ollamaTimerEnds"), "bridgeTimerEnds")
  /\ tpc' = "done"
  /\ UNCHANGED <<inbound, owaspOk, toolIdx, results, inflight, rpcLog, outcomes, chatLog>>
  /\ UNCHANGED othersB

\* answerChat rejects: counted, rethrown to handleChat's catch
AnswerChatFails ==
  /\ tpc = "answer"
  /\ trace' = Append(trace, Ev("answer.fail", 0, ""))
  /\ ThrowT(Inc(Inc(metricsT, "ollamaErrors"), "ollamaTimerEnds"))
  /\ UNCHANGED <<inbound, owaspOk, helper, toolIdx, results, inflight, rpcLog,
                 outcomes, chatLog>>
  /\ UNCHANGED othersB

NextB ==
  \/ HandleChatTools
  \/ OpinionReturns \/ OpinionFails
  \/ ExecuteTool
  \/ MethodCallReturns \/ MethodCallThrows
  \/ ExecuteToolsDone
  \/ AnswerChatReturns \/ AnswerChatFails

\* ============================================================================
\*  Part III : bridge/index.js (function-based handler)
\* ============================================================================

LOREM_LONG == <<"Lorem ipsum dolor sit amet, consectetur adipiscing elit">>
INVALID_MODE == <<"Bridge invalid mode">>
IX_STREAM_ERROR == <<"Error in LLM response streaming">>
EXPERT == "You are an expert"
IX_SUMMARIZE_SYSTEM ==
  <<"You received the following telemetry data from MCP server. Summarize and explain it naturally to the user:">>

\* prompt.includes("system: You are an expert") && prompt.includes("user:")
IxFromGrafana(text) ==
  /\ \E i \in 1..(Len(text) - 1) : text[i] = "system: " /\ text[i + 1] = EXPERT
  /\ \E i \in 1..Len(text) : text[i] = "user: "

\* if (body.messages) {join} else if (body.prompt) ... else if (body.input)
\* ... else JSON.stringify(body) : an array, even an empty one, is truthy
IxSelectPrompt(b) ==
  IF b.messagesGiven THEN JoinLines(b.messages)
  ELSE IF b.prompt # <<>> THEN b.prompt
  ELSE IF b.input # <<>> THEN b.input
  ELSE StringifyBody(b)

IxMessageLists ==
  { <<>>,
    << Msg("user", <<"Hello">>) >>,
    << Msg("system", <<EXPERT>>), Msg("user", <<"Hello">>) >> }

\* req.body: messagesGiven tells an absent `messages` from an empty array
IxBodies ==
  { b \in [ messagesGiven : BOOLEAN,
            messages      : IxMessageLists,
            prompt        : { <<>>, <<"Show dashboards">> },
            input         : { <<>>, <<"Hello">> },
            stream        : BOOLEAN ] :
      ~b.messagesGiven => b.messages = <<>> }

IxModes == { "LLM", "MCP", "TEST", "OFF" }

\* lateJson: res.status(500).json(...) was called after the headers were sent
IxNewRes == [headersSent |-> FALSE, frames |-> <<>>, ended |-> FALSE,
             status |-> 0, json |-> <<>>, isError |-> FALSE, lateJson |-> FALSE]

\* the catch block: res.status(500).json({error}) whatever res.headersSent is;
\* after the headers were sent res.json throws, nothing is written and the
\* connection is not ended
IxCatchResponse(r) ==
  IF ~r.headersSent
  THEN [r EXCEPT !.headersSent = TRUE, !.status = 500, !.isError = TRUE, !.ended = TRUE]
  ELSE [r EXCEPT !.lateJson = TRUE]

\* JSON.stringify(mcpResponse)
IxStringifyResponse(r) ==
  IF r.hasResult THEN <<"json", "{result}", r.result>> ELSE <<"json", "{error}">>

IxSummaryMessages(mcpJson) ==
  << Msg("system", IX_SUMMARIZE_SYSTEM), Msg("assistant", mcpJson), Msg("user", SUMMARIZE_USER) >>

InitC ==
  /\ ixMode \in IxModes
  /\ ixBody \in IxBodies
  /\ ixPc = "idle"
  /\ ixPrompt = <<>>
  /\ ixAnalysis = <<>>
  /\ ixAskLLM = TRUE
  /\ ixFinalResponse = <<>>
  /\ ixRes = IxNewRes
  /\ ixLlmCalls = <<>>
  /\ ixMcpCalls = <<>>
  /\ ixBackend = <<>>
  /\ ixFailure = "none"
  /\ ixMetrics = NewMetrics

\* "Return result to Grafana LLM App": the streaming branch starts the streamed
\* chat or writes finalResponse and ends the stream; the non-streaming branch
\* starts callLLM or sends the completion
IxOutput(p, ask, final, r, m) ==
  IF ixBody.stream
  THEN IF ask
       THEN /\ ixLlmCalls' = Append(ixLlmCalls, LlmCall("stream", AnswerMessages(p), TRUE))
            /\ ixMetrics' = Inc(m, "ollamaRequests")
            /\ ixRes' = r
            /\ ixPc' = "stream"
            /\ ixBackend' \in Backends
       ELSE /\ ixRes' = EndStream(WriteStreamChunk(r, final))
            /\ ixMetrics' = Inc(m, "bridgeTimerEnds")
            /\ ixPc' = "done"
            /\ UNCHANGED <<ixLlmCalls, ixBackend>>
  ELSE IF ask
       THEN /\ ixLlmCalls' = Append(ixLlmCalls, LlmCall("answer", AnswerMessages(p), FALSE))
            /\ ixMetrics' = Inc(m, "ollamaRequests")
            /\ ixRes' = r
            /\ ixPc' = "answer"
            /\ UNCHANGED ixBackend
       ELSE /\ ixRes' = ResJson(r, final)
            /\ ixMetrics' = Inc(m, "bridgeTimerEnds")
            /\ ixPc' = "done"
            /\ UNCHANGED <<ixLlmCalls, ixBackend>>

\* an exception reaching the handler's catch, then finally
IxThrow(m) ==
  /\ ixRes' = IxCatchResponse(ixRes)
  /\ ixMetrics' = Inc(Inc(m, "bridgeErrors"), "bridgeTimerEnds")
  /\ ixPc' = "done"
  /\ UNCHANGED <<ixLlmCalls, ixMcpCalls, ixBackend>>

\* the handler from entry to its first await
IxHandle ==
  /\ ixPc = "idle"
  /\ LET p  == IxSelectPrompt(ixBody)
         r1 == IF ixBody.stream THEN SetupStream(ixRes) ELSE ixRes
         m1 == Inc(ixMetrics, "bridgeRequests")
     IN /\ ixPrompt' = p
        /\ IF ixMode = "TEST"
           THEN /\ ixFinalResponse' = LOREM_LONG
                /\ ixAskLLM' = FALSE
                /\ IxOutput(p, FALSE, LOREM_LONG, r1, m1)
           ELSE IF ixMode = "LLM" \/ IxFromGrafana(p)
           THEN /\ IxOutput(p, TRUE, <<>>, r1, m1)
                /\ UNCHANGED <<ixFinalResponse, ixAskLLM>>
           ELSE IF ixMode = "MCP"
           THEN /\ ixLlmCalls' = Append(ixLlmCalls, LlmCall("analysis", AnalysisMessages(p), FALSE))
                /\ ixMetrics' = Inc(m1, "ollamaRequests")
                /\ ixRes' = r1
                /\ ixPc' = "analysis"
                /\ UNCHANGED <<ixFinalResponse, ixAskLLM, ixBackend>>
           ELSE /\ ixFinalResponse' = INVALID_MODE
                /\ ixAskLLM' = FALSE
                /\ IxOutput(p, FALSE, INVALID_MODE, r1, m1)
  /\ UNCHANGED <<ixMode, ixBody, ixAnalysis, ixMcpCalls, ixFailure>>
  /\ UNCHANGED othersC

\* the analysis callLLM resolves: JSON.parse with fallback; an MCP action goes
\* to callMCP, anything else sets finalResponse = parsed.text || analysisResponse
\* and reaches the output section with askLLM still true
IxAnalysisReturns ==
  /\ ixPc = "analysis"
  /\ \E reply \in LlmReplies :
       LET j  == JSONparse(reply)
           pd == IF j.ok THEN j
                 ELSE [ok |-> TRUE, action |-> "respond", method |-> "", text |-> ixPrompt]
           m1 == Inc(ixMetrics, "ollamaTimerEnds")
       IN /\ ixAnalysis' = reply
          /\ IF pd.action = "mcp" /\ pd.method # ""
             THEN /\ ixMcpCalls' = Append(ixMcpCalls, McpRpc(pd.method, "{}"))
                  /\ ixMetrics' = Inc(m1, "mcpRequests")
                  /\ ixPc' = "mcp"
                  /\ UNCHANGED <<ixFinalResponse, ixRes, ixLlmCalls, ixBackend>>
             ELSE LET final == IF pd.text # <<>> THEN pd.text ELSE reply
                  IN /\ ixFinalResponse' = final
                     /\ IxOutput(ixPrompt, TRUE, final, ixRes, m1)
                     /\ UNCHANGED ixMcpCalls
  /\ UNCHANGED <<ixMode, ixBody, ixPrompt, ixAskLLM, ixFailure>>
  /\ UNCHANGED othersC

\* callLLM rejects: its catch counts and rethrows
IxLlmFails(at) ==
  /\ ixPc = at
  /\ ixFailure' = at
  /\ IxThrow(Inc(Inc(ixMetrics, "ollamaErrors"), "ollamaTimerEnds"))
  /\ UNCHANGED <<ixMode, ixBody, ixPrompt, ixAnalysis, ixAskLLM, ixFinalResponse>>
  /\ UNCHANGED othersC

IxAnalysisFails == IxLlmFails("analysis")

\* callMCP resolves with a 2xx JSON body: the summarising callLLM is issued
IxMcpReturns ==
  /\ ixPc = "mcp"
  /\ \E reply \in McpReplies :
       ixLlmCalls' = Append(ixLlmCalls,
                        LlmCall("summary", IxSummaryMessages(IxStringifyResponse(reply)), FALSE))
  /\ ixMetrics' = Inc(Inc(ixMetrics, "mcpTimerEnds"), "ollamaRequests")
  /\ ixPc' = "summary"
  /\ UNCHANGED <<ixMode, ixBody, ixPrompt, ixAnalysis, ixAskLLM, ixFinalResponse,
                 ixRes, ixMcpCalls, ixBackend, ixFailure>>
  /\ UNCHANGED othersC

\* callMCP throws: fetch rejects, !res.ok, or the body is not JSON
IxMcpFails ==
  /\ ixPc = "mcp"
  /\ ixFailure' = "mcp"
  /\ IxThrow(Inc(Inc(ixMetrics, "mcpErrors"), "mcpTimerEnds"))
  /\ UNCHANGED <<ixMode, ixBody, ixPrompt, ixAnalysis, ixAskLLM, ixFinalResponse>>
  /\ UNCHANGED othersC

\* the summarising callLLM resolves: askLLM = false, output section
IxSummaryReturns ==
  /\ ixPc = "summary"
  /\ \E reply \in AnswerReplies :
       /\ ixFinalResponse' = reply
       /\ IxOutput(ixPrompt, FALSE, reply, ixRes, Inc(ixMetrics, "ollamaTimerEnds"))
  /\ ixAskLLM' = FALSE
  /\ UNCHANGED <<ixMode, ixBody, ixPrompt, ixAnalysis, ixMcpCalls, ixFailure>>
  /\ UNCHANGED othersC

IxSummaryFails == IxLlmFails("summary")

\* the non-streaming answer callLLM resolves: res.json(result)
IxAnswerReturns ==
  /\ ixPc = "answer"
  /\ \E reply \in AnswerReplies :
       /\ ixFinalResponse' = reply
       /\ ixRes' = ResJson(ixRes, reply)
  /\ ixMetrics' = Inc(Inc(ixMetrics, "ollamaTimerEnds"), "bridgeTimerEnds")
  /\ ixPc' = "done"
  /\ UNCHANGED <<ixMode, ixBody, ixPrompt, ixAnalysis, ixAskLLM, ixLlmCalls,
                 ixMcpCalls, ixBackend, ixFailure>>
  /\ UNCHANGED othersC

IxAnswerFails == IxLlmFails("answer")

\* the streaming loop: one iteration of for-await
IxStreamChunk ==
  /\ ixPc = "stream"
  /\ ixBackend # <<>>
  /\ LET chunk == Head(ixBackend)
         r1 == IF chunk.content # <<>> THEN WriteStreamChunk(ixRes, chunk.content) ELSE ixRes
     IN /\ ixFinalResponse' = ixFinalResponse \o chunk.content
        /\ IF chunk.done
           THEN /\ ixRes' = EndStream(r1)
                /\ ixMetrics' = Inc(Inc(ixMetrics, "ollamaTimerEnds"), "bridgeTimerEnds")
                /\ ixPc' = "done"
           ELSE /\ ixRes' = r1
                /\ UNCHANGED <<ixMetrics, ixPc>>
  /\ ixBackend' = Tail(ixBackend)
  /\ UNCHANGED <<ixMode, ixBody, ixPrompt, ixAnalysis, ixAskLLM, ixLlmCalls,
                 ixMcpCalls, ixFailure>>
  /\ UNCHANGED othersC

\* the streaming loop: the backend iterator is exhausted
IxStreamEnds ==
  /\ ixPc = "stream"
  /\ ixBackend = <<>>
  /\ ixRes' = EndStream(ixRes)
  /\ ixMetrics' = Inc(Inc(ixMetrics, "ollamaTimerEnds"), "bridgeTimerEnds")
  /\ ixPc' = "done"
  /\ UNCHANGED <<ixMode, ixBody, ixPrompt, ixAnalysis, ixAskLLM, ixFinalResponse,
                 ixLlmCalls, ixMcpCalls, ixBackend, ixFailure>>
  /\ UNCHANGED othersC

\* the streaming loop throws: the catch sets finalResponse (logged only), no
\* delta is written, then the finish chunk and [DONE]
IxStreamFails ==
  /\ ixPc = "stream"
  /\ ixFailure' = "stream"
  /\ ixFinalResponse' = IX_STREAM_ERROR
  /\ ixRes' = EndStream(ixRes)
  /\ ixMetrics' = Inc(Inc(Inc(ixMetrics, "ollamaErrors"), "ollamaTimerEnds"), "bridgeTimerEnds")
  /\ ixPc' = "done"
  /\ UNCHANGED <<ixMode, ixBody, ixPrompt, ixAnalysis, ixAskLLM, ixLlmCalls,
                 ixMcpCalls, ixBackend>>
  /\ UNCHANGED othersC

NextC ==
  \/ IxHandle
  \/ IxAnalysisReturns \/ IxAnalysisFails
  \/ IxMcpReturns \/ IxMcpFails
  \/ IxSummaryReturns \/ IxSummaryFails
  \/ IxAnswerReturns \/ IxAnswerFails
  \/ IxStreamChunk \/ IxStreamEnds \/ IxStreamFails

\* ============================================================================
\*  Part IV : two requests in flight on one BridgeService instance
\*            (tool-call revision: handleChat / _checkMCP / executeTools)
\* ============================================================================

Req == {1, 2}

PairInbounds ==
  { << UserMsg(<<LINE_HELLO>>) >>,
    << UserMsg(<<LINE_TEST>>) >>,
    << UserMsg(<<LINE_MCP>>) >> }

PairOpinionReplies ==
  { [content |-> <<"No tool is needed.">>, tool_calls |-> <<>>],
    [content |-> <<>>, tool_calls |-> << ToolCall("getDashboards", "") >>],
    [content |-> <<>>, tool_calls |-> << ToolCall("getGrafanaVersion", ""),
                                         ToolCall("getDashboards", "") >>] }

PairServerReplies ==
  { [reached |-> FALSE, ok |-> FALSE, json |-> FALSE, rpcError |-> FALSE],
    [reached |-> TRUE,  ok |-> TRUE,  json |-> TRUE,  rpcError |-> FALSE],
    [reached |-> TRUE,  ok |-> TRUE,  json |-> TRUE,  rpcError |-> TRUE] }

PairFinalReplies == { [content |-> <<"Here is the answer.">>, tool_calls |-> <<>>] }

\* what a request was answered by the LLM or by the tool server
NoChatReply == [content |-> <<>>, tool_calls |-> <<>>]
NoServerReply == [reached |-> FALSE, ok |-> FALSE, json |-> FALSE, rpcError |-> FALSE]
GotChat(kind, reply) == [kind |-> kind, ok |-> TRUE, chat |-> reply, server |-> NoServerReply]
GotServer(reply) == [kind |-> "tool", ok |-> TRUE, chat |-> NoChatReply, server |-> reply]
GotRejection(kind) == [kind |-> kind, ok |-> FALSE, chat |-> NoChatReply, server |-> NoServerReply]

InitD ==
  /\ mcpTools = CATALOG
  /\ pairMetrics = NewMetrics
  /\ qInbound \in [Req -> PairInbounds]
  /\ qOwaspOk \in [Req -> BOOLEAN]
  /\ qHelper = [r \in Req |-> GetHelperFromRequest(<<>>)]
  /\ qPc = [r \in Req |-> "idle"]
  /\ qIdx = [r \in Req |-> 1]
  /\ qResults = [r \in Req |-> <<>>]
  /\ qChat = [r \in Req |-> <<>>]
  /\ qRpc = [r \in Req |-> <<>>]
  /\ qGot = [r \in Req |-> <<>>]
  /\ qRes = [r \in Req |-> NewResT]

\* OllamaHelper.answerChat for request r
PairAnswerChat(r, h, m) ==
  /\ qHelper' = [qHelper EXCEPT ![r] = h]
  /\ IF h.answer.content # <<>>
     THEN /\ qRes' = [qRes EXCEPT ![r] = [@ EXCEPT !.headersSent = TRUE, !.status = 200,
                                                  !.content = h.answer.content, !.ended = TRUE]]
          /\ pairMetrics' = Inc(Inc(Inc(m, "ollamaRequests"), "ollamaTimerEnds"), "bridgeTimerEnds")
          /\ qPc' = [qPc EXCEPT ![r] = "done"]
          /\ UNCHANGED qChat
     ELSE /\ qChat' = [qChat EXCEPT ![r] = Append(@, ChatRequest("answer", h))]
          /\ pairMetrics' = Inc(m, "ollamaRequests")
          /\ qPc' = [qPc EXCEPT ![r] = "answer"]
          /\ UNCHANGED qRes

\* handleChat's catch and finally blocks for request r
PairThrow(r, m) ==
  /\ qRes' = [qRes EXCEPT ![r] =
                IF ~@.headersSent
                THEN [@ EXCEPT !.headersSent = TRUE, !.status = 500, !.ended = TRUE]
                ELSE [@ EXCEPT !.ended = TRUE]]
  /\ pairMetrics' = Inc(Inc(m, "bridgeErrors"), "bridgeTimerEnds")
  /\ qPc' = [qPc EXCEPT ![r] = "done"]

\* handleChat of request r from entry, through _checkOWASP and _checkMCP, to
\* its first await; `helper.prompt.tools = this.mcp.tools` attaches what the
\* instance holds at that moment
PairHandleChat(r) ==
  /\ qPc[r] = "idle"
  /\ LET h0 == GetHelperFromRequest(qInbound[r])
         h1 == IF qOwaspOk[r] THEN h0 ELSE [h0 EXCEPT !.answer.content = INVALID_PROMPT]
         ms == h1.prompt.messages
         m1 == Inc(pairMetrics, "bridgeRequests")
     IN IF Len(ms) > 0 /\ StartsWithTest(LastLine(ms[Len(ms)].content))
        THEN PairAnswerChat(r, TestReply(h1), m1)
        ELSE IF Len(ms) > 0 /\ StartsWithMcp(LastLine(ms[Len(ms)].content))
        THEN LET h2 == [h1 EXCEPT !.prompt.tools = mcpTools]
             IN /\ qHelper' = [qHelper EXCEPT ![r] = h2]
                /\ qChat' = [qChat EXCEPT ![r] = Append(@, ChatRequest("opinion", h2))]
                /\ pairMetrics' = Inc(m1, "ollamaRequests")
                /\ qPc' = [qPc EXCEPT ![r] = "opinion"]
                /\ UNCHANGED qRes
        ELSE PairAnswerChat(r, h1, m1)
  /\ UNCHANGED <<mcpTools, qInbound, qOwaspOk, qIdx, qResults, qRpc, qGot>>
  /\ UNCHANGED othersD

\* _checkMCP of request r: its opinion call resolves
PairOpinionReturns(r) ==
  /\ qPc[r] = "opinion"
  /\ \E reply \in PairOpinionReplies :
       LET h1 == StoreReply(qHelper[r], reply)
           m1 == Inc(pairMetrics, "ollamaTimerEnds")
       IN /\ qGot' = [qGot EXCEPT ![r] = Append(@, GotChat("opinion", reply))]
          /\ IF Len(h1.answer.tool_calls) > 0
             THEN /\ qHelper' = [qHelper EXCEPT ![r] = PushToolCalls(h1)]
                  /\ pairMetrics' = Inc(m1, "mcpRequests")
                  /\ qPc' = [qPc EXCEPT ![r] = "tools"]
                  /\ qIdx' = [qIdx EXCEPT ![r] = 1]
                  /\ qResults' = [qResults EXCEPT ![r] = <<>>]
                  /\ UNCHANGED <<qChat, qRes>>
             ELSE /\ PairAnswerChat(r, h1, m1)
                  /\ UNCHANGED <<qIdx, qResults>>
  /\ UNCHANGED <<mcpTools, qInbound, qOwaspOk, qRpc>>
  /\ UNCHANGED othersD

\* mutant of PairOpinionFails: the rejection is counted by the call site and
\* once more on the way out
PairOpinionFails_CountedTwice(r) ==
  /\ qPc[r] = "opinion"
  /\ qGot' = [qGot EXCEPT ![r] = Append(@, GotRejection("opinion"))]
  /\ PairThrow(r, Inc(Inc(Inc(pairMetrics, "ollamaErrors"), "ollamaErrors"), "ollamaTimerEnds"))
  /\ UNCHANGED <<mcpTools, qInbound, qOwaspOk, qHelper, qIdx, qResults, qChat, qRpc>>
  /\ UNCHANGED othersD
\* _checkMCP of request r: its opinion call rejects
PairOpinionFails(r) ==
  /\ qPc[r] = "opinion"
  /\ qGot' = [qGot EXCEPT ![r] = Append(@, GotRejection("opinion"))]
  /\ PairThrow(r, Inc(Inc(pairMetrics, "ollamaErrors"), "ollamaTimerEnds"))
  /\ UNCHANGED <<mcpTools, qInbound, qOwaspOk, qHelper, qIdx, qResults, qChat, qRpc>>
  /\ UNCHANGED othersD

\* executeTools of request r: one iteration of its for-loop reaches executeTool
PairExecuteTool(r) ==
  /\ qPc[r] = "tools"
  /\ qIdx[r] <= Len(qHelper[r].answer.tool_calls)
  /\ LET toolCall == qHelper[r].answer.tool_calls[qIdx[r]]
         target == ExecuteToolTarget(toolCall)
     IN IF target.local
        THEN /\ qResults' = [qResults EXCEPT ![r] =
                   Append(@, ResultEntry(toolCall, [error |-> <<>>, value |-> target.value]))]
             /\ qIdx' = [qIdx EXCEPT ![r] = @ + 1]
             /\ UNCHANGED <<qPc, qRpc>>
        ELSE /\ qRpc' = [qRpc EXCEPT ![r] = Append(@, target.rpc)]
             /\ qPc' = [qPc EXCEPT ![r] = "fetch"]
             /\ UNCHANGED <<qResults, qIdx>>
  /\ UNCHANGED <<mcpTools, pairMetrics, qInbound, qOwaspOk, qHelper, qChat, qGot, qRes>>
  /\ UNCHANGED othersD

\* methodCall of request r resolves
PairMethodCallReturns(r) ==
  /\ qPc[r] = "fetch"
  /\ \E reply \in PairServerReplies :
       /\ ~MethodCallThrowsOn(reply)
       /\ qGot' = [qGot EXCEPT ![r] = Append(@, GotServer(reply))]
       /\ qResults' = [qResults EXCEPT ![r] =
             Append(@, ResultEntry(qHelper[r].answer.tool_calls[qIdx[r]],
                                   MethodCallResult(qRpc[r][Len(qRpc[r])], reply)))]
  /\ qIdx' = [qIdx EXCEPT ![r] = @ + 1]
  /\ qPc' = [qPc EXCEPT ![r] = "tools"]
  /\ UNCHANGED <<mcpTools, pairMetrics, qInbound, qOwaspOk, qHelper, qChat, qRpc, qRes>>
  /\ UNCHANGED othersD

\* methodCall of request r throws: through _checkMCP's catch into handleChat's
PairMethodCallThrows(r) ==
  /\ qPc[r] = "fetch"
  /\ \E reply \in PairServerReplies :
       /\ MethodCallThrowsOn(reply)
       /\ qGot' = [qGot EXCEPT ![r] = Append(@, GotServer(reply))]
  /\ PairThrow(r, Inc(Inc(pairMetrics, "mcpErrors"), "mcpTimerEnds"))
  /\ UNCHANGED <<mcpTools, qInbound, qOwaspOk, qHelper, qIdx, qResults, qChat, qRpc>>
  /\ UNCHANGED othersD

\* mutant of PairExecuteToolsDone: the catalog is emptied through the
\* reference the helper holds (helper.prompt.tools.length = 0)
PairExecuteToolsDone_EmptiesCatalog(r) ==
  /\ qPc[r] = "tools"
  /\ qIdx[r] > Len(qHelper[r].answer.tool_calls)
  /\ mcpTools' = NULL_TOOLS
  /\ PairAnswerChat(r, AfterTools(qHelper[r], qResults[r]), Inc(pairMetrics, "mcpTimerEnds"))
  /\ UNCHANGED <<qInbound, qOwaspOk, qIdx, qResults, qRpc, qGot>>
  /\ UNCHANGED othersD

\* _checkMCP of request r after executeTools returned: the tool messages and
\* the instruction are pushed to its own helper, whose prompt.tools field
\* is set to null; this.mcp.tools is not written
PairExecuteToolsDone(r) ==
  /\ qPc[r] = "tools"
  /\ qIdx[r] > Len(qHelper[r].answer.tool_calls)
  /\ mcpTools' = mcpTools
  /\ PairAnswerChat(r, AfterTools(qHelper[r], qResults[r]), Inc(pairMetrics, "mcpTimerEnds"))
  /\ UNCHANGED <<qInbound, qOwaspOk, qIdx, qResults, qRpc, qGot>>
  /\ UNCHANGED othersD

\* answerChat of request r resolves and the answer is rendered
PairAnswerChatReturns(r) ==
  /\ qPc[r] = "answer"
  /\ \E reply \in PairFinalReplies :
       /\ qGot' = [qGot EXCEPT ![r] = Append(@, GotChat("answer", reply))]
       /\ qHelper' = [qHelper EXCEPT ![r] = StoreReply(@, reply)]
       /\ qRes' = [qRes EXCEPT ![r] = [@ EXCEPT !.headersSent = TRUE, !.status = 200,
                                                !.content = reply.content, !.ended = TRUE]]
  /\ pairMetrics' = Inc(Inc(pairMetrics, "ollamaTimerEnds"), "bridgeTimerEnds")
  /\ qPc' = [qPc EXCEPT ![r] = "done"]
  /\ UNCHANGED <<mcpTools, qInbound, qOwaspOk, qIdx, qResults, qChat, qRpc>>
  /\ UNCHANGED othersD

\* answerChat of request r rejects
PairAnswerChatFails(r) ==
  /\ qPc[r] = "answer"
  /\ qGot' = [qGot EXCEPT ![r] = Append(@, GotRejection("answer"))]
  /\ PairThrow(r, Inc(Inc(pairMetrics, "ollamaErrors"), "ollamaTimerEnds"))
  /\ UNCHANGED <<mcpTools, qInbound, qOwaspOk, qHelper, qIdx, qResults, qChat, qRpc>>
  /\ UNCHANGED othersD

\* any interleaving of the two handlers at their await points
NextD ==
  \E r \in Req :
    \/ PairHandleChat(r)
    \/ PairOpinionReturns(r) \/ PairOpinionFails(r)
    \/ PairExecuteTool(r)
    \/ PairMethodCallReturns(r) \/ PairMethodCallThrows(r)
    \/ PairExecuteToolsDone(r)
    \/ PairAnswerChatReturns(r) \/ PairAnswerChatFails(r)

\* ============================================================================
\*  Part V : withSpan (bridge/TempoTracer.js, bridge/helpers/LoggerHelper.js)
\* ============================================================================

SpanImpls == {"TempoTracer.js", "LoggerHelper.js"}

\* the values of `attributes`: none, primitives, a plain object, an object
\* JSON.stringify cannot serialise (circular)
AttributeKinds == {"none", "primitive", "object", "circular"}

\* what fn does once called: it resolves with a value, or rejects with a
\* reason; the reason is an Error, a string, or undefined (Promise.reject())
FnResults == {"undefined", "value-1", "value-2"}
FnReasons == {"Error: boom", "string reason", "undefined"}
FnOutcomes ==
  [kind : {"resolves"}, value : FnResults] \cup [kind : {"rejects"}, value : FnReasons]

Pending == [kind |-> "pending", value |-> ""]
Resolves(v) == [kind |-> "resolves", value |-> v]
Rejects(e) == [kind |-> "rejects", value |-> e]

STRINGIFY_ERROR == "TypeError: Converting circular structure to JSON"
MESSAGE_OF_UNDEFINED == "TypeError: Cannot read properties of undefined (reading 'message')"

NewSpan == [started |-> FALSE, events |-> <<>>, status |-> 0, exceptions |-> 0, ended |-> FALSE]

\* the finally block: span.addEvent("span.end"), span.end()
SpanFinally(s) == [s EXCEPT !.events = Append(@, "span.end"), !.ended = TRUE]

\* the catch block: `err.message` is read first; on undefined that read
\* throws, and the TypeError leaves the catch block in place of err
SpanCatch(s, err) ==
  IF err = "undefined"
  THEN [span |-> s, out |-> Rejects(MESSAGE_OF_UNDEFINED)]
  ELSE [span |-> [s EXCEPT !.events = Append(@, "span.error"),
                           !.exceptions = @ + 1, !.status = 2],
        out |-> Rejects(err)]

\* the attribute loop: LoggerHelper stringifies object values first
SetAttributesThrows(impl, attrs) == impl = "LoggerHelper.js" /\ attrs = "circular"

InitE ==
  /\ spImpl \in SpanImpls
  /\ spTracer \in BOOLEAN
  /\ spAttrs \in AttributeKinds
  /\ spPc = "idle"
  /\ spCalls = 0
  /\ spFn = Pending
  /\ spOut = Pending
  /\ spSpan = NewSpan

\* withSpan from entry to `await fn(...)`
WithSpan ==
  /\ spPc = "idle"
  /\ IF ~spTracer
     THEN \* fallback: return await fn({ log })
          /\ spCalls' = spCalls + 1
          /\ spPc' = "fn"
          /\ UNCHANGED <<spOut, spSpan>>
     ELSE LET s0 == [spSpan EXCEPT !.started = TRUE]
          IN IF SetAttributesThrows(spImpl, spAttrs)
             THEN LET c == SpanCatch(s0, STRINGIFY_ERROR)
                  IN /\ spSpan' = SpanFinally(c.span)
                     /\ spOut' = c.out
                     /\ spPc' = "done"
                     /\ UNCHANGED spCalls
             ELSE /\ spSpan' = [s0 EXCEPT !.events = Append(@, "span.start")]
                  /\ spCalls' = spCalls + 1
                  /\ spPc' = "fn"
                  /\ UNCHANGED spOut
  /\ UNCHANGED <<spImpl, spTracer, spAttrs, spFn>>
  /\ UNCHANGED othersE

\* withSpan after fn has settled with outcome o
SpanSettles(traced, s, o) ==
  IF ~traced THEN [span |-> s, out |-> o]
  ELSE IF o.kind = "resolves"
  THEN [span |-> SpanFinally([s EXCEPT !.events = Append(@, "span.success"), !.status = 1]),
        out |-> o]
  ELSE LET c == SpanCatch(s, o.value)
       IN [span |-> SpanFinally(c.span), out |-> c.out]

\* fn settles and withSpan completes
FnSettles ==
  /\ spPc = "fn"
  /\ \E o \in FnOutcomes :
       LET c == SpanSettles(spTracer, spSpan, o)
       IN /\ spFn' = o
          /\ spSpan' = c.span
          /\ spOut' = c.out
  /\ spPc' = "done"
  /\ UNCHANGED <<spImpl, spTracer, spAttrs, spCalls>>
  /\ UNCHANGED othersE

NextE == WithSpan \/ FnSettles

\* ============================================================================
\*  Part VI : authMiddleware (tool-call revision of BridgeService)
\* ============================================================================

BEARER == "Bearer "

\* process.env.LLM_BRIDGE_API_KEY ; <<>> : unset or empty
AuthKeys == { <<>>, <<"s3cret">>, <<"ab", "cd">> }

Absent == [present |-> FALSE, text |-> <<>>]
Given(t) == [present |-> TRUE, text |-> t]

\* req.headers.authorization
AuthHeaders ==
  { Absent,
    Given(<<BEARER, "s3cret">>),
    Given(<<"s3cret">>),
    Given(<<BEARER, "wrong">>),
    Given(<<BEARER>>),
    Given(<<BEARER, "ab", "cd">>),
    Given(<<"ab", BEARER, "cd">>),
    Given(<<BEARER, BEARER, "s3cret">>) }

\* req.body.prompt.apiKey
BodyApiKeys == { Absent, Given(<<>>), Given(<<"s3cret">>), Given(<<"wrong">>), Given(<<"ab", "cd">>) }

FirstBearer(t) == { i \in 1..Len(t) : t[i] = BEARER /\ \A j \in 1..(i - 1) : t[j] # BEARER }

\* mutant of ReplaceBearer: the header is compared as it came
ReplaceBearer_Keep(t) == t

\* String.prototype.replace("Bearer ", "") : the first occurrence, wherever
\* it is, is removed
ReplaceBearer(t) ==
  IF FirstBearer(t) = {} THEN t
  ELSE LET i == CHOOSE k \in FirstBearer(t) : TRUE
       IN SubSeq(t, 1, i - 1) \o SubSeq(t, i + 1, Len(t))

NewAuthRes == [status |-> 0, error |-> ""]

InitF ==
  /\ auKey \in AuthKeys
  /\ auHeader \in AuthHeaders
  /\ auApiKey \in BodyApiKeys
  /\ auPc = "idle"
  /\ auRes = NewAuthRes
  /\ auNext = 0
  /\ auHandled = 0

\* authMiddleware(req, res, next)
AuthMiddleware ==
  /\ auPc = "idle"
  /\ LET authKey == IF auHeader.present THEN Given(ReplaceBearer(auHeader.text)) ELSE Absent
         apiKey  == auApiKey
         falsy(v) == ~v.present \/ v.text = <<>>
     IN IF /\ auKey # <<>>
           /\ (falsy(authKey) \/ authKey.text # auKey)
           /\ (falsy(apiKey) \/ apiKey.text # auKey)
        THEN /\ auRes' = [status |-> 401, error |-> "Unauthorized"]
             /\ auPc' = "rejected"
             /\ UNCHANGED auNext
        ELSE /\ auNext' = auNext + 1
             /\ auPc' = "next"
             /\ UNCHANGED auRes
  /\ UNCHANGED <<auKey, auHeader, auApiKey, auHandled>>
  /\ UNCHANGED othersF

\* next(): the router passes the request on to handleChat
AuthNextHandler ==
  /\ auPc = "next"
  /\ auHandled' = auHandled + 1
  /\ auPc' = "handled"
  /\ UNCHANGED <<auKey, auHeader, auApiKey, auRes, auNext>>
  /\ UNCHANGED othersF

NextF == AuthMiddleware \/ AuthNextHandler

\* ================================================================ Part VII
\* src/unnamed/part_005 : processPrompt with the mcpResponse.error branch
MCP_INTERNAL_ERROR == <<"MCP Server internal error (see grafana logs)">>
J_STREAM_ERROR == <<"[bridge] error in streaming">>

\* bodies of a 2xx MCP reply: a result, an error, or neither
JMcpReplies ==
  { [hasResult |-> TRUE,  result |-> "dashboards", hasError |-> FALSE],
    [hasResult |-> FALSE, result |-> "",           hasError |-> TRUE],
    [hasResult |-> FALSE, result |-> "",           hasError |-> FALSE] }

NoJMcpReply == [hasResult |-> FALSE, result |-> "", hasError |-> FALSE]

InitG ==
  /\ jMode \in {"LLM", "TEST"}
  /\ jBody \in Bodies
  /\ jPc = "idle"
  /\ jPrompt = <<>>
  /\ jStream = FALSE
  /\ jParsed = NoParsed
  /\ jAskLLM = TRUE
  /\ jFinal = <<>>
  /\ jMcpReply = NoJMcpReply
  /\ jRes = NewRes
  /\ jLlmCalls = <<>>
  /\ jMcpCalls = <<>>
  /\ jBackend = <<>>
  /\ jFailure = "none"
  /\ jMetrics = NewMetrics

\* "final response" with askLLM = TRUE
JStartAnswer(p, s, r, m) ==
  /\ jLlmCalls' = Append(jLlmCalls, LlmCall(IF s THEN "stream" ELSE "answer", AnswerMessages(p), s))
  /\ jMetrics' = Inc(m, "ollamaRequests")
  /\ jRes' = r
  /\ IF s THEN jPc' = "stream" /\ jBackend' \in Backends
          ELSE jPc' = "answer" /\ jBackend' = jBackend
  /\ UNCHANGED jMcpCalls

\* "final response" with askLLM = FALSE, then handleChat's
\* `if (!stream) res.json(response)` and its finally block
JFinish(s, r, m, content) ==
  /\ jRes' = IF s THEN EndStream(WriteStreamChunk(r, content)) ELSE ResJson(r, content)
  /\ jMetrics' = Inc(m, "bridgeTimerEnds")
  /\ jPc' = "done"
  /\ UNCHANGED <<jLlmCalls, jMcpCalls, jBackend>>

\* an exception reaching handleChat: catch block, then finally
JThrow(r, m) ==
  /\ jRes' = CatchResponse(r)
  /\ jMetrics' = Inc(Inc(m, "bridgeErrors"), "bridgeTimerEnds")
  /\ jPc' = "done"
  /\ UNCHANGED <<jLlmCalls, jMcpCalls, jBackend>>

\* this.callMCP(method, parsed.params || {})
JStartMcp(method, r, m) ==
  /\ jMcpCalls' = Append(jMcpCalls, McpRpc(method, "{}"))
  /\ jMetrics' = Inc(m, "mcpRequests")
  /\ jRes' = r
  /\ jPc' = "mcp"
  /\ UNCHANGED <<jLlmCalls, jBackend>>

\* handleChat from entry to its first await
JHandleChat ==
  /\ jPc = "idle"
  /\ LET p  == SelectPrompt(jBody)
         s  == jBody.stream = TRUE
         r1 == IF s THEN SetupStream(jRes) ELSE jRes
         m1 == Inc(jMetrics, "bridgeRequests")
     IN /\ jPrompt' = p
        /\ jStream' = s
        /\ IF jMode = "TEST"
           THEN /\ jRes' = IF s THEN r1 ELSE ResJson(r1, LOREM)
                /\ jMetrics' = Inc(m1, "bridgeTimerEnds")
                /\ jPc' = "done"
                /\ UNCHANGED <<jParsed, jLlmCalls, jMcpCalls, jBackend>>
           ELSE IF IncludesMcp(p)
           THEN IF EndsWithTools(p)
                THEN /\ jParsed' = [ok |-> TRUE, action |-> "mcp", method |-> "tools/list", text |-> <<>>]
                     /\ JStartMcp("tools/list", r1, m1)
                ELSE /\ jLlmCalls' = Append(jLlmCalls, LlmCall("analysis", AnalysisMessages(p), FALSE))
                     /\ jMetrics' = Inc(m1, "ollamaRequests")
                     /\ jRes' = r1
                     /\ jPc' = "analysis"
                     /\ UNCHANGED <<jParsed, jMcpCalls, jBackend>>
           ELSE /\ JStartAnswer(p, s, r1, m1)
                /\ UNCHANGED jParsed
  /\ UNCHANGED <<jMode, jBody, jAskLLM, jFinal, jMcpReply, jFailure>>
  /\ UNCHANGED othersG

\* the analysis callLLM resolves: JSON.parse with fallback, then MCP or answer
JAnalysisReturns ==
  /\ jPc = "analysis"
  /\ \E reply \in LlmReplies :
       LET j  == JSONparse(reply)
           pd == IF j.ok THEN j
                 ELSE [ok |-> TRUE, action |-> "respond", method |-> "", text |-> jPrompt]
           m1 == Inc(jMetrics, "ollamaTimerEnds")
       IN /\ jParsed' = pd
          /\ IF pd.action = "mcp" /\ pd.method # ""
             THEN JStartMcp(pd.method, jRes, m1)
             ELSE JStartAnswer(jPrompt, jStream, jRes, m1)
  /\ UNCHANGED <<jMode, jBody, jPrompt, jStream, jAskLLM, jFinal, jMcpReply, jFailure>>
  /\ UNCHANGED othersG

\* callLLM rejects: its catch counts and rethrows
JLlmFails(at) ==
  /\ jPc = at
  /\ jFailure' = at
  /\ JThrow(jRes, Inc(Inc(jMetrics, "ollamaErrors"), "ollamaTimerEnds"))
  /\ UNCHANGED <<jMode, jBody, jPrompt, jStream, jParsed, jAskLLM, jFinal, jMcpReply>>
  /\ UNCHANGED othersG

JAnalysisFails == JLlmFails("analysis")

\* mutant of JMcpReturns: the error branch is gone, every reply is summarised
JMcpReturns_NoErrorBranch ==
  /\ jPc = "mcp"
  /\ \E reply \in JMcpReplies :
       LET mcpResult == StringifyResult(reply)
           m1 == Inc(jMetrics, "mcpTimerEnds")
       IN /\ jMcpReply' = reply
          /\ IF EndsWithTools(jPrompt)
             THEN /\ jFinal' = mcpResult
                  /\ jAskLLM' = FALSE
                  /\ JFinish(jStream, jRes, m1, mcpResult)
             ELSE /\ jLlmCalls' = Append(jLlmCalls, LlmCall("summary", SummaryMessages(mcpResult), FALSE))
                  /\ jMetrics' = Inc(m1, "ollamaRequests")
                  /\ jPc' = "summary"
                  /\ UNCHANGED <<jFinal, jAskLLM, jRes, jMcpCalls, jBackend>>
  /\ UNCHANGED <<jMode, jBody, jPrompt, jStream, jParsed, jFailure>>
  /\ UNCHANGED othersG

\* callMCP resolves with a 2xx JSON body: the fixed text for an error,
\* the stringified result for the tools list, a summarising call otherwise
JMcpReturns ==
  /\ jPc = "mcp"
  /\ \E reply \in JMcpReplies :
       LET mcpResult == StringifyResult(reply)
           m1 == Inc(jMetrics, "mcpTimerEnds")
       IN /\ jMcpReply' = reply
          /\ IF reply.hasError
             THEN /\ jFinal' = MCP_INTERNAL_ERROR
                  /\ jAskLLM' = FALSE
                  /\ JFinish(jStream, jRes, m1, MCP_INTERNAL_ERROR)
             ELSE IF EndsWithTools(jPrompt)
             THEN /\ jFinal' = mcpResult
                  /\ jAskLLM' = FALSE
                  /\ JFinish(jStream, jRes, m1, mcpResult)
             ELSE /\ jLlmCalls' = Append(jLlmCalls, LlmCall("summary", SummaryMessages(mcpResult), FALSE))
                  /\ jMetrics' = Inc(m1, "ollamaRequests")
                  /\ jPc' = "summary"
                  /\ UNCHANGED <<jFinal, jAskLLM, jRes, jMcpCalls, jBackend>>
  /\ UNCHANGED <<jMode, jBody, jPrompt, jStream, jParsed, jFailure>>
  /\ UNCHANGED othersG

\* callMCP throws: fetch rejects, !res.ok, or the body is not JSON
JMcpFails ==
  /\ jPc = "mcp"
  /\ jFailure' = "mcp"
  /\ JThrow(jRes, Inc(Inc(jMetrics, "mcpErrors"), "mcpTimerEnds"))
  /\ UNCHANGED <<jMode, jBody, jPrompt, jStream, jParsed, jAskLLM, jFinal, jMcpReply>>
  /\ UNCHANGED othersG

\* the summarising callLLM resolves
JSummaryReturns ==
  /\ jPc = "summary"
  /\ \E reply \in AnswerReplies :
       /\ jFinal' = reply
       /\ jAskLLM' = FALSE
       /\ JFinish(jStream, jRes, Inc(jMetrics, "ollamaTimerEnds"), reply)
  /\ UNCHANGED <<jMode, jBody, jPrompt, jStream, jParsed, jMcpReply, jFailure>>
  /\ UNCHANGED othersG

JSummaryFails == JLlmFails("summary")

\* the non-streamed answering callLLM resolves
JAnswerReturns ==
  /\ jPc = "answer"
  /\ \E reply \in AnswerReplies :
       /\ jFinal' = reply
       /\ JFinish(FALSE, jRes, Inc(jMetrics, "ollamaTimerEnds"), reply)
  /\ UNCHANGED <<jMode, jBody, jPrompt, jStream, jParsed, jAskLLM, jMcpReply, jFailure>>
  /\ UNCHANGED othersG

JAnswerFails == JLlmFails("answer")

\* streamLLMResponse: one iteration of the for-await loop; a chunk with
\* content is written and added to finalResponse, `done` leaves the loop,
\* then finally, endStream and handleChat's finally
JStreamChunk ==
  /\ jPc = "stream"
  /\ jBackend # <<>>
  /\ LET chunk == Head(jBackend)
         r1 == IF chunk.content # <<>> THEN WriteStreamChunk(jRes, chunk.content) ELSE jRes
     IN /\ jFinal' = jFinal \o chunk.content
        /\ IF chunk.done
           THEN /\ jRes' = EndStream(r1)
                /\ jMetrics' = Inc(Inc(jMetrics, "ollamaTimerEnds"), "bridgeTimerEnds")
                /\ jPc' = "done"
           ELSE /\ jRes' = r1
                /\ UNCHANGED <<jMetrics, jPc>>
  /\ jBackend' = Tail(jBackend)
  /\ UNCHANGED <<jMode, jBody, jPrompt, jStream, jParsed, jAskLLM, jMcpReply, jLlmCalls,
                 jMcpCalls, jFailure>>
  /\ UNCHANGED othersG

\* the iterator is exhausted without a done chunk
JStreamEnds ==
  /\ jPc = "stream"
  /\ jBackend = <<>>
  /\ jRes' = EndStream(jRes)
  /\ jMetrics' = Inc(Inc(jMetrics, "ollamaTimerEnds"), "bridgeTimerEnds")
  /\ jPc' = "done"
  /\ UNCHANGED <<jMode, jBody, jPrompt, jStream, jParsed, jAskLLM, jFinal, jMcpReply,
                 jLlmCalls, jMcpCalls, jBackend, jFailure>>
  /\ UNCHANGED othersG

\* ollama.chat or the iterator rejects: the catch of streamLLMResponse
\* replaces finalResponse, writes it, and the stream is ended normally
JStreamFails ==
  /\ jPc = "stream"
  /\ jFailure' = "stream"
  /\ jFinal' = J_STREAM_ERROR
  /\ jRes' = EndStream(WriteStreamChunk(jRes, J_STREAM_ERROR))
  /\ jMetrics' = Inc(Inc(Inc(jMetrics, "ollamaErrors"), "ollamaTimerEnds"), "bridgeTimerEnds")
  /\ jPc' = "done"
  /\ UNCHANGED <<jMode, jBody, jPrompt, jStream, jParsed, jAskLLM, jMcpReply, jLlmCalls,
                 jMcpCalls, jBackend>>
  /\ UNCHANGED othersG

NextG ==
  \/ JHandleChat
  \/ JAnalysisReturns \/ JAnalysisFails
  \/ JMcpReturns \/ JMcpFails
  \/ JSummaryReturns \/ JSummaryFails
  \/ JAnswerReturns \/ JAnswerFails
  \/ JStreamChunk \/ JStreamEnds \/ JStreamFails


\* =============================================================== Part VIII
\* BridgeService.init / the module-level initialisation, TempoTracer.init,
\* and the calls made through the tracer reference afterwards
ServiceRevisions == {"BridgeService.js", "part_007", "part_005"}

CallKinds == {"callLLM", "callMCP"}

WITHSPAN_OF_UNDEFINED == "TypeError: Cannot read properties of undefined (reading 'withSpan')"

Settled(kind, outcome) == [call |-> kind, outcome |-> outcome]

\* TempoTracer.init(): an async method without a return statement
TempoTracerInit == "undefined"

\* what the initialisation leaves in the tracer reference:
\*   BridgeService.js  this.tempo = await new TempoTracer(...).init()
\*   part_007          const tempo = await new TempoTracer(...).init()
\*   part_005          this.tempo = new TempoTracer(...); await this.tempo.init()
TracerReference(rev) ==
  IF rev = "part_005" THEN "TempoTracer" ELSE TempoTracerInit

InitH ==
  /\ svRev \in ServiceRevisions
  /\ svPc = "new"
  /\ svTempo = "null"
  /\ svTracer = FALSE
  /\ svCall = "none"
  /\ svLog = <<>>

\* init() up to `await this.sdk.start()` inside TempoTracer.init
ServiceInit ==
  /\ svPc = "new"
  /\ svPc' = "starting"
  /\ svTempo' = IF svRev = "part_005" THEN "TempoTracer" ELSE svTempo
  /\ UNCHANGED <<svRev, svTracer, svCall, svLog>>
  /\ UNCHANGED othersH

\* sdk.start() resolves: this.tracer is set, TempoTracer.init returns, the
\* awaited value is assigned, the system prompt is loaded
SdkStarts ==
  /\ svPc = "starting"
  /\ svTracer' = TRUE
  /\ svTempo' = TracerReference(svRev)
  /\ svPc' = "ready"
  /\ UNCHANGED <<svRev, svCall, svLog>>
  /\ UNCHANGED othersH

\* sdk.start() or loadSystemPrompt throws: init rejects, the module's
\* top-level await fails and no request is served
InitThrows ==
  /\ svPc = "starting"
  /\ svPc' = "failed"
  /\ UNCHANGED <<svRev, svTempo, svTracer, svCall, svLog>>
  /\ UNCHANGED othersH

\* callLLM / callMCP: `return await this.tempo.withSpan(name, attrs, fn)`
ServiceCall(kind) ==
  /\ svPc = "ready"
  /\ Len(svLog) < MaxServiceCalls
  /\ IF svTempo = "TempoTracer"
     THEN /\ svPc' = "calling"
          /\ svCall' = kind
          /\ UNCHANGED svLog
     ELSE /\ svLog' = Append(svLog, Settled(kind, WITHSPAN_OF_UNDEFINED))
          /\ UNCHANGED <<svPc, svCall>>
  /\ UNCHANGED <<svRev, svTempo, svTracer>>
  /\ UNCHANGED othersH

\* fn settles inside withSpan and the call settles the same way
ServiceCallSettles ==
  /\ svPc = "calling"
  /\ \E outcome \in {"resolved", "rejected"} :
       svLog' = Append(svLog, Settled(svCall, outcome))
  /\ svPc' = "ready"
  /\ svCall' = "none"
  /\ UNCHANGED <<svRev, svTempo, svTracer>>
  /\ UNCHANGED othersH

NextH ==
  \/ ServiceInit
  \/ SdkStarts
  \/ InitThrows
  \/ \E kind \in CallKinds : ServiceCall(kind)
  \/ ServiceCallSettles


\* ================================================================= Part IX
\* src/unnamed/part_000 : normalizeIdentifier
\* code units the inputs are made of: letters, a digit, '_', ':', and three
\* that the pattern does not accept ('-', ' ', a non-ASCII unit)
IdChars == {"a", "Z", "7", "_", ":", "-", " ", "\\u00e9"}

Str(chars) == [type |-> "string", chars |-> chars]
NotStr(type) == [type |-> type, chars |-> <<>>]

NormInputs ==
  { Str(c) : c \in SeqsUpTo(IdChars, MaxIdLen) }
    \cup { NotStr("undefined"), NotStr("number"), NotStr("object") }

\* /^[a-zA-Z_:]$/.test(c)
IsFirstChar(c) == c \in {"a", "Z", "_", ":"}

\* the complement of /[^a-zA-Z0-9_:]/
IsRestChar(c) == c \in {"a", "Z", "7", "_", ":"}

\* mutant of NormalizeIdentifier: the first code unit is checked against the
\* class of the following ones
NormalizeIdentifier_FirstAsRest(input) ==
  IF input.type # "string" \/ Len(input.chars) = 0
  THEN <<"_">>
  ELSE LET first == IF IsRestChar(input.chars[1]) THEN input.chars[1] ELSE "_"
           rest  == [ i \in 1..(Len(input.chars) - 1) |->
                        IF IsRestChar(input.chars[i + 1]) THEN input.chars[i + 1] ELSE "_" ]
       IN <<first>> \o rest

\* normalizeIdentifier(input)
NormalizeIdentifier(input) ==
  IF input.type # "string" \/ Len(input.chars) = 0
  THEN <<"_">>
  ELSE LET first == IF IsFirstChar(input.chars[1]) THEN input.chars[1] ELSE "_"
           rest  == [ i \in 1..(Len(input.chars) - 1) |->
                        IF IsRestChar(input.chars[i + 1]) THEN input.chars[i + 1] ELSE "_" ]
       IN <<first>> \o rest

InitK ==
  /\ niInput \in NormInputs
  /\ niPc = "idle"
  /\ niOut = <<>>
  /\ niTwice = <<>>

\* normalizeIdentifier(input)
NormalizeOnce ==
  /\ niPc = "idle"
  /\ niOut' = NormalizeIdentifier(niInput)
  /\ niPc' = "once"
  /\ UNCHANGED <<niInput, niTwice>>
  /\ UNCHANGED othersK

\* normalizeIdentifier applied to the string it returned
NormalizeAgain ==
  /\ niPc = "once"
  /\ niTwice' = NormalizeIdentifier(Str(niOut))
  /\ niPc' = "twice"
  /\ UNCHANGED <<niInput, niOut>>
  /\ UNCHANGED othersK

NextK == NormalizeOnce \/ NormalizeAgain


\* ------------------------------------------------------- specifications
IdleA ==
  /\ mode = "LLM"
  /\ body = [messages |-> <<>>, prompt |-> <<>>, input |-> <<>>, stream |-> FALSE]
  /\ pc = "idle"
  /\ prompt = <<>>
  /\ stream = FALSE
  /\ analysisResponse = <<>>
  /\ parsed = NoParsed
  /\ askLLM = TRUE
  /\ finalResponse = <<>>
  /\ res = NewRes
  /\ llmCalls = <<>>
  /\ mcpCalls = <<>>
  /\ backend = <<>>
  /\ failure = "none"
  /\ metrics = NewMetrics
  /\ respId = NoId
  /\ response = NoResponse
  /\ replies = <<>>
  /\ consumed = <<>>
  /\ closed = NotClosed
  /\ run = 1
  /\ now = 0
  /\ prev = NoPrev

IdleB ==
  /\ inbound = <<>>
  /\ owaspOk = TRUE
  /\ helper = GetHelperFromRequest(<<>>)
  /\ tpc = "idle"
  /\ toolIdx = 1
  /\ results = <<>>
  /\ inflight = <<>>
  /\ rpcLog = <<>>
  /\ outcomes = <<>>
  /\ chatLog = <<>>
  /\ trace = <<>>
  /\ resT = NewResT
  /\ metricsT = NewMetrics

IdleC ==
  /\ ixMode = "LLM"
  /\ ixBody = [messagesGiven |-> FALSE, messages |-> <<>>, prompt |-> <<>>,
               input |-> <<>>, stream |-> FALSE]
  /\ ixPc = "idle"
  /\ ixPrompt = <<>>
  /\ ixAnalysis = <<>>
  /\ ixAskLLM = TRUE
  /\ ixFinalResponse = <<>>
  /\ ixRes = IxNewRes
  /\ ixLlmCalls = <<>>
  /\ ixMcpCalls = <<>>
  /\ ixBackend = <<>>
  /\ ixFailure = "none"
  /\ ixMetrics = NewMetrics

IdleD ==
  /\ mcpTools = CATALOG
  /\ pairMetrics = NewMetrics
  /\ qInbound = [r \in Req |-> <<>>]
  /\ qOwaspOk = [r \in Req |-> TRUE]
  /\ qHelper = [r \in Req |-> GetHelperFromRequest(<<>>)]
  /\ qPc = [r \in Req |-> "idle"]
  /\ qIdx = [r \in Req |-> 1]
  /\ qResults = [r \in Req |-> <<>>]
  /\ qChat = [r \in Req |-> <<>>]
  /\ qRpc = [r \in Req |-> <<>>]
  /\ qGot = [r \in Req |-> <<>>]
  /\ qRes = [r \in Req |-> NewResT]

IdleE ==
  /\ spImpl = "TempoTracer.js"
  /\ spTracer = FALSE
  /\ spAttrs = "none"
  /\ spPc = "idle"
  /\ spCalls = 0
  /\ spFn = Pending
  /\ spOut = Pending
  /\ spSpan = NewSpan

IdleF ==
  /\ auKey = <<>>
  /\ auHeader = Absent
  /\ auApiKey = Absent
  /\ auPc = "idle"
  /\ auRes = NewAuthRes
  /\ auNext = 0
  /\ auHandled = 0

IdleG ==
  /\ jMode = "LLM"
  /\ jBody = [messages |-> <<>>, prompt |-> <<>>, input |-> <<>>, stream |-> FALSE]
  /\ jPc = "idle"
  /\ jPrompt = <<>>
  /\ jStream = FALSE
  /\ jParsed = NoParsed
  /\ jAskLLM = TRUE
  /\ jFinal = <<>>
  /\ jMcpReply = NoJMcpReply
  /\ jRes = NewRes
  /\ jLlmCalls = <<>>
  /\ jMcpCalls = <<>>
  /\ jBackend = <<>>
  /\ jFailure = "none"
  /\ jMetrics = NewMetrics

IdleH ==
  /\ svRev = "BridgeService.js"
  /\ svPc = "new"
  /\ svTempo = "null"
  /\ svTracer = FALSE
  /\ svCall = "none"
  /\ svLog = <<>>

IdleK ==
  /\ niInput = NotStr("undefined")
  /\ niPc = "idle"
  /\ niOut = <<>>
  /\ niTwice = <<>>

\* bridge/BridgeService.js serving one request
Init == InitA /\ IdleB /\ IdleC /\ IdleD /\ IdleE /\ IdleF /\ IdleG /\ IdleH /\ IdleK
Next == NextA
Spec == Init /\ [][Next]_vars

\* the tool-call revision serving one request
InitMcp == IdleA /\ InitB /\ IdleC /\ IdleD /\ IdleE /\ IdleF /\ IdleG /\ IdleH /\ IdleK
NextMcp == NextB
SpecMcp == InitMcp /\ [][NextMcp]_vars

\* bridge/index.js serving one request
InitIndex == IdleA /\ IdleB /\ InitC /\ IdleD /\ IdleE /\ IdleF /\ IdleG /\ IdleH /\ IdleK
NextIndex == NextC
SpecIndex == InitIndex /\ [][NextIndex]_vars

\* the tool-call revision serving two requests at once
InitPair == IdleA /\ IdleB /\ IdleC /\ InitD /\ IdleE /\ IdleF /\ IdleG /\ IdleH /\ IdleK
NextPair == NextD
SpecPair == InitPair /\ [][NextPair]_vars

\* one call of withSpan
InitSpan == IdleA /\ IdleB /\ IdleC /\ IdleD /\ InitE /\ IdleF /\ IdleG /\ IdleH /\ IdleK
NextSpan == NextE
SpecSpan == InitSpan /\ [][NextSpan]_vars

\* one request through authMiddleware
InitAuth == IdleA /\ IdleB /\ IdleC /\ IdleD /\ IdleE /\ InitF /\ IdleG /\ IdleH /\ IdleK
NextAuth == NextF
SpecAuth == InitAuth /\ [][NextAuth]_vars


\* the revision with the mcpResponse.error branch serving one request
InitJson == IdleA /\ IdleB /\ IdleC /\ IdleD /\ IdleE /\ IdleF /\ InitG /\ IdleH /\ IdleK
NextJson == NextG
SpecJson == InitJson /\ [][NextJson]_vars


\* initialisation of the service, then calls through the tracer reference
InitService == IdleA /\ IdleB /\ IdleC /\ IdleD /\ IdleE /\ IdleF /\ IdleG /\ InitH /\ IdleK
NextService == NextH
SpecService == InitService /\ [][NextService]_vars


\* normalizeIdentifier on every input up to MaxIdLen code units
InitNorm == IdleA /\ IdleB /\ IdleC /\ IdleD /\ IdleE /\ IdleF /\ IdleG /\ IdleH /\ InitK
NextNorm == NextK
SpecNorm == InitNorm /\ [][NextNorm]_vars

\* --------------------------------------------------- Part II : properties
Positions(e) == { i \in 1..Len(trace) : trace[i].ev = e }

IsToolEvent(e) == e.ev \in {"tool.start", "tool.end", "tool.fail"}

Conversation == helper.prompt.messages

ToolRolePositions == { k \in 1..Len(Conversation) : Conversation[k].role = "tool" }

\* the ToolCalls of the opinion response, as carried by the assistant message
\* pushed right after the inbound messages
BatchToolCalls ==
  IF Len(Conversation) > Len(inbound) /\ Conversation[Len(inbound) + 1].tool_calls # <<>>
  THEN Conversation[Len(inbound) + 1].tool_calls
  ELSE <<>>

BatchStarted == Positions("batch.start") # {}

\* C4: per request at most one LLM opinion call, at most one batch tool
\* execution and at most one final-answer call; nothing is dispatched and no
\* LLM opinion is asked once the final-answer call has been issued, so the
\* tool calls of a later LLM response are never executed.
C4_AtMostOneToolRound ==
  /\ Cardinality(Positions("opinion.start")) <= 1
  /\ Cardinality(Positions("batch.start")) <= 1
  /\ Cardinality(Positions("answer.start")) <= 1
  /\ Cardinality({ i \in 1..Len(chatLog) : chatLog[i].kind = "opinion" }) <= 1
  /\ Cardinality({ i \in 1..Len(chatLog) : chatLog[i].kind = "answer" }) <= 1
  /\ \A i \in Positions("tool.start"), j \in Positions("tool.start") :
       trace[i].i = trace[j].i => i = j
  /\ \A i \in Positions("answer.start") : \A j \in (i + 1)..Len(trace) :
       trace[j].ev \notin {"tool.start", "batch.start", "opinion.start", "answer.start"}
  /\ (tpc = "done" /\ Positions("answer.end") # {}) => inflight = <<>>

\* a finished request with one tool round whose final LLM response carried
\* tool calls of its own
C4_Witness ==
  /\ tpc = "done"
  /\ BatchStarted
  /\ Positions("answer.end") # {}
  /\ helper.answer.tool_calls # <<>>
  /\ Len(rpcLog) >= 1

\* C5: within one request the opinion call completes before any tool
\* dispatch begins, the tool calls are dispatched one after another in
\* ToolCall order with never two in flight, and every dispatch has completed
\* before the follow-up LLM call begins.
C5_StrictlySequential ==
  LET te == SelectSeq(trace, IsToolEvent)
  IN /\ Len(inflight) <= 1
     /\ \A k \in 1..Len(te) :
          IF k % 2 = 1
          THEN te[k].ev = "tool.start" /\ te[k].i = (k + 1) \div 2
          ELSE te[k].ev \in {"tool.end", "tool.fail"} /\ te[k].i = k \div 2
                 /\ te[k].name = te[k - 1].name
     /\ \A j \in Positions("tool.start") :
          /\ \E i \in Positions("opinion.end") : i < j
          /\ trace[j].i <= Len(BatchToolCalls)
          /\ trace[j].name = BatchToolCalls[trace[j].i].name
     /\ \A a \in Positions("answer.start") :
          /\ inflight = <<>> \/ tpc # "answer"
          /\ BatchStarted =>
               \A n \in 1..Len(BatchToolCalls) :
                 \E j \in Positions("tool.end") : j < a /\ trace[j].i = n
     /\ (tpc = "answer") => inflight = <<>>

\* the follow-up call has begun after two remote dispatches
C5_Witness ==
  /\ tpc = "answer"
  /\ Len(rpcLog) = 2
  /\ Len(BatchToolCalls) = 2

\* the tool-role messages of the conversation are exactly the N results
AllToolMessagesPresent ==
  LET n == Len(inbound)
      calls == BatchToolCalls
  IN /\ Len(results) = Len(calls)
     /\ ToolRolePositions = { n + 1 + i : i \in 1..Len(calls) }
     /\ \A i \in 1..Len(calls) :
          /\ Conversation[n + 1 + i].name = calls[i].name
          /\ results[i].name = calls[i].name
          /\ Conversation[n + 1 + i].payload.inner = results[i].result

\* C6: a tool-assisted turn whose opinion response carries N >= 1 ToolCalls
\* appends exactly N tool-role messages, the i-th carrying the name and
\* result of the i-th ToolCall, all present before the follow-up LLM call.
C6_NToolMessages ==
  /\ (BatchStarted /\ tpc \in {"answer", "done"}) => AllToolMessagesPresent
  /\ \A i \in 1..Len(chatLog) :
       (chatLog[i].kind = "answer" /\ BatchStarted) =>
          Cardinality({ k \in 1..Len(chatLog[i].messages) : chatLog[i].messages[k].role = "tool" })
            = Len(BatchToolCalls)

\* the entry of results for which the tool server returned an RPC-level error
IsRpcError(entry) == entry.result.error = <<"rpc error message">>

\* C7: if the tool server returns an RPC-level error for a ToolCall, the
\* tool-role message appended for it has a payload of the form {error: ...}
\* (error marker at the top level), and the request still reaches the
\* final-answer call with no exception escaping to the HTTP layer.
C7_RpcErrorPayload ==
  \A i \in 1..Len(results) :
    (IsRpcError(results[i]) /\ Positions("batch.end") # {}) =>
       /\ Conversation[Len(inbound) + 1 + i].role = "tool"
       /\ Conversation[Len(inbound) + 1 + i].payload.key = "error"
       /\ Positions("answer.start") # {}

IsTransportFailure(reply) == ~reply.reached \/ ~reply.ok

\* C8: a tool-server transport failure (unreachable, non-2xx status including
\* one whose body is not JSON, or 401) is turned into a tool-call failure
\* value recorded in the conversation; it never propagates as an exception
\* out of the batch and the pipeline continues to the final-answer call.
C8_TransportFailureIsData ==
  (\E k \in 1..Len(outcomes) : IsTransportFailure(outcomes[k])) =>
     /\ Positions("tool.fail") = {}
     /\ tpc = "done" =>
          /\ Positions("answer.start") # {}
          /\ \E i \in 1..Len(results) : results[i].content = "error"

\* C9: no tool-role message is appended until every ToolCall of the turn has
\* been executed: while the batch runs the conversation holds no tool result,
\* and after a batch that failed part-way it holds none either.
C9_BatchSemantics ==
  /\ (tpc \in {"tools", "fetch"}) => ToolRolePositions = {}
  /\ (Positions("tool.fail") # {}) => ToolRolePositions = {}
  /\ (ToolRolePositions # {}) =>
       /\ Positions("batch.end") # {}
       /\ Len(results) = Len(BatchToolCalls)
       /\ Cardinality(ToolRolePositions) = Len(BatchToolCalls)

\* an intermediate point of a batch: one of two ToolCalls executed
C9_Witness ==
  /\ tpc = "tools"
  /\ Len(BatchToolCalls) = 2
  /\ Len(results) = 1
  /\ toolIdx = 2

\* C10: after a tool-execution round the follow-up LLM call is made with the
\* augmented conversation (assistant message carrying the ToolCalls, the
\* tool-role messages, then the synthetic system instruction, in that order)
\* and with no tool catalog attached.
C10_FollowUpCall ==
  \A c \in 1..Len(chatLog) :
    (chatLog[c].kind = "answer" /\ BatchStarted) =>
       LET ms == chatLog[c].messages
           n  == Len(inbound)
           N  == Len(ms[n + 1].tool_calls)
       IN /\ chatLog[c].tools = NULL_TOOLS
          /\ SubSeq(ms, 1, n) = inbound
          /\ ms[n + 1].role = "assistant" /\ N >= 1
          /\ Len(ms) = n + N + 2
          /\ \A i \in 1..N : ms[n + 1 + i].role = "tool"
                              /\ ms[n + 1 + i].name = ms[n + 1].tool_calls[i].name
          /\ ms[n + N + 2] = SystemInstructionMsg

\* the follow-up call of a round with two ToolCalls has been issued
C10_Witness ==
  /\ BatchStarted
  /\ \E c \in 1..Len(chatLog) :
       chatLog[c].kind = "answer" /\ Len(chatLog[c].messages) = Len(inbound) + 4

\* GrafanaMcp.executeTool / McpHelper.executeTool: the tool names that have a
\* branch of their own
DispatchTable ==
  { "getDashboards", "getMetricsNames", "getMetrics", "getDatasources",
    "getDashboard", "getMetric", "getGrafanaVersion", "getToolsList" }

\* C11: a ToolCall whose name has no branch in the dispatch table is forwarded
\* to the tool server as one tools/call request carrying that name; it is
\* neither answered locally nor failed.
C11_UnknownToolForwarded ==
  \A i \in Positions("tool.end") :
    trace[i].name \notin DispatchTable =>
      \E k \in 1..Len(rpcLog) :
        rpcLog[k].method = "tools/call" /\ rpcLog[k].params.name = trace[i].name

\* the final line of a message text, read off the text itself
FinalLineOf(content) == IF content = <<>> THEN "" ELSE content[Len(content)]

SentinelMode(line) ==
  IF StartsWithTest(line) THEN "test"
  ELSE IF StartsWithMcp(line) THEN "tool"
  ELSE "direct"

UserPositions(ms) == { k \in 1..Len(ms) : ms[k].role = "user" }

\* the mode the last line of the last user message asks for
ModeByLastUser(ms) ==
  IF UserPositions(ms) = {} THEN "direct"
  ELSE LET k == CHOOSE u \in UserPositions(ms) : \A v \in UserPositions(ms) : v <= u
       IN SentinelMode(FinalLineOf(ms[k].content))

\* the mode the last line of the last message (of any role) asks for
ModeByLastMessage(ms) ==
  IF ms = <<>> THEN "direct" ELSE SentinelMode(FinalLineOf(ms[Len(ms)].content))

\* the path the request has taken
ModeTaken ==
  IF Positions("opinion.start") # {} THEN "tool"
  ELSE IF chatLog = <<>> /\ helper.answer.content = LOREM THEN "test"
  ELSE "direct"

SentinelElsewhere(ms) ==
  \E k \in 1..Len(ms) : \E l \in 1..Len(ms[k].content) :
    /\ SentinelMode(ms[k].content[l]) # "direct"
    /\ (k < Len(ms) \/ l < Len(ms[k].content))

RepliedLorem == resT.status = 200 /\ resT.content = LOREM /\ resT.ended

C14_PromptPriority ==
  pc # "idle" =>
    /\ body.messages # <<>> => prompt = JoinLines(body.messages)
    /\ (body.messages = <<>> /\ body.prompt # <<>>) => prompt = body.prompt
    /\ (body.messages = <<>> /\ body.prompt = <<>> /\ body.input # <<>>) => prompt = body.input
    /\ (body.messages = <<>> /\ body.prompt = <<>> /\ body.input = <<>>) =>
         prompt = StringifyBody(body)
    /\ \A b \in Bodies :
         (b.messages = body.messages /\ body.messages # <<>>) =>
            prompt = JoinLines(b.messages)

\* all three sources given: the messages were chosen
C14_Witness ==
  /\ pc # "idle"
  /\ body.messages # <<>> /\ body.prompt # <<>> /\ body.input # <<>>
  /\ prompt = JoinLines(body.messages)
  /\ prompt # body.prompt

\* C15: the first non-empty source wins in both handlers: a source that is
\* present but empty (an empty messages array, an empty prompt or input) is
\* skipped, and the function-based handler (index.js) selects, for every
\* body, the prompt the class-based handler (BridgeService.handleChat) selects.
C15_FirstNonEmptyWinsInBoth ==
  ixPc # "idle" =>
    /\ ixPrompt = SelectPrompt(ixBody)
    /\ (ixBody.messages = <<>> /\ ixBody.prompt # <<>>) => ixPrompt = ixBody.prompt
    /\ (ixBody.messages = <<>> /\ ixBody.prompt = <<>> /\ ixBody.input # <<>>) =>
         ixPrompt = ixBody.input

\* ------------------------------------------------ index.js : properties
\* the analysis reply decided for an MCP call
IxDecidedMcp ==
  LET j == JSONparse(ixAnalysis) IN j.ok /\ j.action = "mcp" /\ j.method # ""

\* parsed.text || analysisResponse : the text of the analysis reply
IxAnalysisText ==
  LET j == JSONparse(ixAnalysis)
  IN IF j.ok /\ j.text # <<>> THEN j.text ELSE ixAnalysis

\* the content delivered to the client: the completion's message content, or
\* the content deltas of the stream
IxDelivered ==
  IF ixBody.stream
  THEN { ixRes.frames[i].content : i \in { k \in 1..Len(ixRes.frames) : ixRes.frames[k].type = "delta" } }
  ELSE { ixRes.json }

\* C16: when the analysis reply carries no tool call (decoded action other
\* than 'mcp'), no MCP call is made, no further LLM call is issued for the
\* answer, the text of that reply is the final answer, and the outcome is not
\* an error.
C16_DeclinedToolTextIsAnswer ==
  (ixAnalysis # <<>> /\ ~IxDecidedMcp) =>
     /\ ixMcpCalls = <<>>
     /\ Len(ixLlmCalls) = 1
     /\ ixPc = "done" => (~ixRes.isError /\ IxDelivered = { IxAnalysisText })

\* ------------------------------------- BridgeService.js : more properties
\* the content delivered to the client by BridgeService.handleChat
Delivered ==
  IF stream
  THEN { res.frames[i].content : i \in { k \in 1..Len(res.frames) : res.frames[k].type = "delta" } }
  ELSE { res.json }

AnalysisNotJson == analysisResponse # <<>> /\ ~JSONparse(analysisResponse).ok

\* C17: when the analysis reply is not valid JSON the request does not fail
\* and the raw text of that reply is the final answer content: it is not
\* discarded, no other text (the user's prompt, another LLM reply) is
\* delivered in its place.
C17_RawAnalysisTextIsAnswer ==
  AnalysisNotJson =>
     /\ Len(llmCalls) = 1
     /\ pc = "done" => (~res.isError /\ Delivered = { analysisResponse })

\* the prompt's last line is '#mcp:grafana:tools'
ToolsListRequested == prompt # <<>> /\ prompt[Len(prompt)] = SENTINEL_TOOLS

ToolsListOnly ==
  /\ mcpCalls = << McpRpc("tools/list", "{}") >>
  /\ llmCalls = <<>>

IxCaught == ixPc = "done" /\ ixFailure \in {"analysis", "mcp", "summary", "answer"}

\* C19: in the function-based revision too, a failed request yields exactly
\* one response with status 500 and body {error: message} when no headers
\* have been sent, and when the headers have already been sent the handler
\* only closes the connection: it never tries to set a status or to write a
\* JSON body.
C19_ErrorResponseInEveryRevision ==
  IxCaught =>
    IF ixRes.frames = <<>>
    THEN ixRes.status = 500 /\ ixRes.isError /\ ixRes.ended
    ELSE ixRes.ended /\ ~ixRes.lateJson /\ ixRes.status = 0

\* ------------------------------------- tool-call revision : more properties
LlmFailPositions == Positions("opinion.fail") \cup Positions("answer.fail")

ChatCallsOfKind(kind) == { c \in 1..Len(chatLog) : chatLog[c].kind = kind }

\* C20: a failed LLM call (opinion or final answer) aborts the request: the
\* failure is the last event of the request, so no LLM or tool call follows
\* it, the failed call is not issued again, and the request ends in exactly
\* one error outcome, the HTTP 500 response.
C20_LlmFailureAborts ==
  LlmFailPositions # {} =>
    /\ Cardinality(LlmFailPositions) = 1
    /\ \A i \in LlmFailPositions : i = Len(trace)
    /\ tpc = "done" /\ inflight = <<>>
    /\ Cardinality(ChatCallsOfKind("opinion")) <= 1
    /\ Cardinality(ChatCallsOfKind("answer")) <= 1
    /\ Positions("opinion.fail") # {} =>
         /\ Len(chatLog) = 1
         /\ rpcLog = <<>> /\ Positions("tool.start") = {}
    /\ resT.status = 500 /\ resT.ended /\ resT.content = <<>>
    /\ metricsT.bridgeErrors = 1

\* the opinion call of a tool-assisted request has failed
C20_Witness ==
  /\ tpc = "done"
  /\ Positions("opinion.fail") # {}
  /\ Len(chatLog) = 1
  /\ resT.status = 500

\* ---------------------------------------------------- C21 .. C30 : properties
\* the text carries the system prompt
CarriesSystemPrompt(text) == \E i \in 1..Len(text) : \E j \in 1..Len(SYSTEM_PROMPT) : text[i] = SYSTEM_PROMPT[j]

AnalysisCalls == { k \in 1..Len(llmCalls) : llmCalls[k].kind = "analysis" }

SystemPromptLeads(ms) ==
  /\ Len(ms) >= 1
  /\ ms[1] = Msg("system", SYSTEM_PROMPT)
  /\ \A j \in 2..Len(ms) : ms[j].role # "system" /\ ms[j].content # SYSTEM_PROMPT

\* C21: in every analysis call the system prompt is the first message (and
\* only the first), and the system prompt text is in nothing the bridge
\* sends to the client: not in the JSON content, not in any stream frame
C21_SystemPromptFirstNeverEchoed ==
  /\ \A k \in AnalysisCalls : SystemPromptLeads(llmCalls[k].messages)
  /\ ~CarriesSystemPrompt(res.json)
  /\ ~CarriesSystemPrompt(response.content)
  /\ \A i \in 1..Len(res.frames) : ~CarriesSystemPrompt(res.frames[i].content)

\* an analysis call was made and the request was answered without an error
C21_Witness ==
  /\ pc = "done" /\ AnalysisCalls # {} /\ failure = "none" /\ ~res.isError
  /\ Len(llmCalls) >= 2
  /\ res.json # <<>>

IsPrefix(s, t) == Len(s) <= Len(t) /\ SubSeq(t, 1, Len(s)) = s

\* C22: the conversation of a request only grows at its end: the helper's
\* message list and the message list of every LLM call start with the
\* inbound messages, unchanged and in order, and each LLM call's list
\* extends the list of the call before it
C22_ConversationAppendOnly ==
  /\ tpc # "idle" => IsPrefix(inbound, helper.prompt.messages)
  /\ \A k \in 1..Len(chatLog) : IsPrefix(inbound, chatLog[k].messages)
  /\ \A k \in 1..Len(chatLog) : \A l \in k..Len(chatLog) :
        IsPrefix(chatLog[k].messages, chatLog[l].messages)

\* tools were executed and the answer call went out with the grown list
C22_Witness ==
  /\ tpc = "done"
  /\ Len(chatLog) = 2
  /\ Len(chatLog[2].messages) > Len(inbound) + 2
  /\ Len(inbound) >= 2

\* the two requests carry the same body, got the same OWASP verdict, stand at
\* the same await and have received the same replies to their own calls
SameInputsSoFar ==
  /\ qInbound[1] = qInbound[2]
  /\ qOwaspOk[1] = qOwaspOk[2]
  /\ qPc[1] = qPc[2]
  /\ qIdx[1] = qIdx[2]
  /\ qGot[1] = qGot[2]

\* C23: however the two handlers interleave, a request's LLM calls, tool
\* requests, conversation and response are a function of its own body and
\* of the replies to its own calls (two requests agreeing on those agree on
\* all of it, whatever the other one did in between); every opinion call
\* carries the full catalog; and the catalog of the instance never changes
C23_RequestsIndependent ==
  /\ mcpTools = CATALOG
  /\ \A r \in Req : \A k \in 1..Len(qChat[r]) :
        /\ IsPrefix(qInbound[r], qChat[r][k].messages)
        /\ qChat[r][k].kind = "opinion" => qChat[r][k].tools = CATALOG
        /\ qChat[r][k].kind = "answer" => qChat[r][k].tools = NULL_TOOLS
  /\ SameInputsSoFar =>
        /\ qChat[1] = qChat[2]
        /\ qRpc[1] = qRpc[2]
        /\ qHelper[1] = qHelper[2]
        /\ qResults[1] = qResults[2]
        /\ qRes[1] = qRes[2]

\* both requests ran the tool path to the end on the same inputs
C23_Witness ==
  /\ qPc[1] = "done" /\ qPc[2] = "done"
  /\ SameInputsSoFar
  /\ Len(qChat[1]) = 2 /\ Len(qRpc[1]) = 1
  /\ qRes[1].status = 200 /\ qRes[2].status = 200

\* content deltas written after the client had closed the connection
DeltasAfterClose ==
  { i \in 1..Len(res.frames) : i > closed.frames /\ res.frames[i].type = "delta" }

\* C24: once the client has disconnected during a streamed answer, no
\* further backend chunk is consumed and no further content chunk is written
C24_DisconnectStopsStreaming ==
  closed.gone =>
    /\ Len(consumed) = closed.consumed
    /\ DeltasAfterClose = {}

\* C25: withSpan invokes fn exactly once, and settles as fn settled: it
\* returns the value fn resolved to, or throws the reason fn rejected with
C25_WithSpanTransparent ==
  /\ spCalls <= 1
  /\ spPc = "done" => (spCalls = 1 /\ spOut = spFn)

\* what does hold: on the fallback path always; with a tracer, whenever the
\* attributes can be set and fn does not reject with undefined
WithSpanTransparentOtherwise ==
  /\ spCalls <= 1
  /\ (spPc = "done" /\ (~spTracer \/ (~SetAttributesThrows(spImpl, spAttrs) /\ spFn # Rejects("undefined"))))
        => (spCalls = 1 /\ spOut = spFn)
  /\ (spPc = "done" /\ spTracer) => spSpan.ended

\* two response bodies are equal in every field but id and created
SameButIdCreated(a, b) ==
  [a EXCEPT !.id = NoId, !.created = 0] = [b EXCEPT !.id = NoId, !.created = 0]

\* the external calls of this request were answered as those of the
\* previous request were (a deterministic LLM and tool server)
SameRepliesAsBefore == prev.valid /\ replies = prev.replies

\* C26: when the same non-streaming body is served again by the same
\* instance and the LLM and the tool server answer as they did before, the
\* request issues the same calls and sends the same response: same status,
\* same content, every field of the body equal but id and created
C26_SameBodySameResponse ==
  (pc = "done" /\ SameRepliesAsBefore) =>
     /\ SameButIdCreated(response, prev.response)
     /\ res = prev.res
     /\ llmCalls = prev.llmCalls
     /\ mcpCalls = prev.mcpCalls

\* second run of a tool request: analysis, MCP call and summary answered as
\* before; id and created differ, the rest is equal
C26_Witness ==
  /\ pc = "done" /\ SameRepliesAsBefore
  /\ Len(replies) = 3
  /\ response.content # <<>>
  /\ response.id # prev.response.id
  /\ response.created # prev.response.created
  /\ metrics.bridgeRequests = 2

\* the tool names whose executeTool branch sends a request to the tool server
RemoteTools == DispatchTable \ {"getGrafanaVersion"}

RemoteStartPositions == { p \in Positions("tool.start") : trace[p].name \in RemoteTools }

\* the how-manieth request of the request's lifetime the start at p sends
RpcIndexOf(p) == Cardinality({ q \in RemoteStartPositions : q <= p })

\* what the get* method of GrafanaMcp (or McpHelper.getToolsList) hands to
\* methodCall for a ToolCall: the method, and as params the tool {name,
\* arguments}; for tools/list the params are {} (no name, no arguments)
GivenByCaller(toolCall) ==
  CASE toolCall.name = "getDashboards" ->
         [method |-> "tools/call", name |-> "search_dashboards", arguments |-> <<"search", "*">>]
    [] toolCall.name = "getMetricsNames" ->
         [method |-> "tools/call", name |-> "list_prometheus_metric_names",
          arguments |-> <<"datasourceUid", "Prometheus">>]
    [] toolCall.name = "getMetrics" ->
         [method |-> "tools/call", name |-> "list_prometheus_metric_metadata",
          arguments |-> <<"datasourceUid", "Prometheus", "metric", "*">>]
    [] toolCall.name = "getDatasources" ->
         [method |-> "tools/call", name |-> "list_datasources", arguments |-> <<>>]
    [] toolCall.name = "getDashboard" ->
         [method |-> "tools/call", name |-> "get_dashboard_summary",
          arguments |-> <<"uid", toolCall.uid>>]
    [] toolCall.name = "getMetric" ->
         [method |-> "tools/call", name |-> "list_prometheus_metric_metadata",
          arguments |-> <<"datasourceUid", "Prometheus", "metric", toolCall.uid>>]
    [] OTHER ->
         [method |-> "tools/list", name |-> "", arguments |-> <<>>]

\* C27: every request sent to the tool server is an envelope with exactly the
\* members jsonrpc = "2.0", id = "1", method and params, where method and
\* params are those the caller gave: tools/call with the tool's {name,
\* arguments}, tools/list with {}
C27_JsonRpcEnvelope ==
  /\ Len(rpcLog) = Cardinality(RemoteStartPositions)
  /\ \A p \in RemoteStartPositions :
       LET rpc == rpcLog[RpcIndexOf(p)]
           given == GivenByCaller(BatchToolCalls[trace[p].i])
       IN /\ DOMAIN rpc = {"jsonrpc", "id", "method", "params"}
          /\ rpc.jsonrpc = "2.0"
          /\ rpc.id = "1"
          /\ rpc.method = given.method
          /\ DOMAIN rpc.params = {"name", "arguments"}
          /\ rpc.params.name = given.name
          /\ rpc.params.arguments = given.arguments

\* a tools/call with arguments and a tools/list went out in one request
C27_Witness ==
  /\ Len(rpcLog) = 2
  /\ \E k \in 1..2 : rpcLog[k].method = "tools/list" /\ rpcLog[k].params.name = ""
  /\ \E k \in 1..2 : rpcLog[k].method = "tools/call" /\ rpcLog[k].params.arguments = <<"uid", "abc">>

\* the header with a leading 'Bearer ' taken off (unchanged when it does not
\* start with it)
WithoutBearerPrefix(t) == IF Len(t) > 0 /\ t[1] = BEARER THEN Tail(t) ELSE t

\* the request presents the configured key in its Authorization header,
\* read as the claim reads it (prefix removed)
HeaderIsKeyByPrefix == auHeader.present /\ WithoutBearerPrefix(auHeader.text) = auKey

\* ... read as the code reads it: the first 'Bearer ' removed wherever it is
HeaderIsKeyByReplace ==
  /\ auHeader.present
  /\ \/ FirstBearer(auHeader.text) = {} /\ auHeader.text = auKey
     \/ \E i \in FirstBearer(auHeader.text) :
          SubSeq(auHeader.text, 1, i - 1) \o SubSeq(auHeader.text, i + 1, Len(auHeader.text)) = auKey

BodyIsKey == auApiKey.present /\ auApiKey.text = auKey

LetThrough == auPc \in {"next", "handled"}
Refused == auPc = "rejected"

\* the outcome of the middleware, given who may pass
AuthOutcome(mayPass) ==
  /\ auNext <= 1 /\ auHandled <= auNext
  /\ auPc # "idle" =>
       /\ LetThrough # Refused
       /\ LetThrough <=> (auKey = <<>> \/ mayPass)
       /\ LetThrough => (auNext = 1 /\ auRes = NewAuthRes)
       /\ Refused => (auNext = 0 /\ auHandled = 0 /\ auRes = [status |-> 401, error |-> "Unauthorized"])

\* C28 as stated: with a key configured a request gets through exactly when
\* its Authorization header with the 'Bearer ' prefix removed is the key or
\* body.prompt.apiKey is the key; otherwise 401 'Unauthorized' and no handler
\* call; exactly one outcome; without a key everything gets through
C28_AuthByPrefix == AuthOutcome(HeaderIsKeyByPrefix \/ BodyIsKey)

\* C28 amended: the header is compared after removing the first occurrence
\* of 'Bearer ', wherever in the header it stands
C28_AuthByReplace == AuthOutcome(HeaderIsKeyByReplace \/ BodyIsKey)

\* a Bearer header with the right key went through and reached the handler;
\* (the 401 case is C28_WitnessRefused)
C28_Witness ==
  /\ auPc = "handled" /\ auHandled = 1
  /\ auKey = <<"s3cret">>
  /\ auHeader = Given(<<BEARER, "s3cret">>)
  /\ auApiKey = Given(<<"wrong">>)

C28_WitnessRefused ==
  /\ Refused /\ auKey = <<"s3cret">> /\ auHeader = Given(<<BEARER, "wrong">>) /\ ~auApiKey.present

\* no part of the prompt carries the sentinel '#mcp:grafana'
NoSentinelInPrompt == \A i \in 1..Len(prompt) : prompt[i] \notin {SENTINEL_TOOLS, SENTINEL_SHOW}

RECURSIVE NonEmptyContents(_)
\* the non-empty content fields of a chunk sequence, in order
NonEmptyContents(chunks) ==
  IF chunks = <<>> THEN <<>>
  ELSE (IF chunks[1].content # <<>> THEN <<chunks[1].content>> ELSE <<>>)
       \o NonEmptyContents(Tail(chunks))

RECURSIVE UpToFirstDone(_)
\* the chunks up to and including the first one with done = true
UpToFirstDone(chunks) ==
  IF chunks = <<>> THEN <<>>
  ELSE IF chunks[1].done THEN <<chunks[1]>>
  ELSE <<chunks[1]>> \o UpToFirstDone(Tail(chunks))

RECURSIVE DeltaContents(_)
\* the contents of the delta frames written to the client, in order
DeltaContents(frames) ==
  IF frames = <<>> THEN <<>>
  ELSE (IF frames[1].type = "delta" THEN <<frames[1].content>> ELSE <<>>)
       \o DeltaContents(Tail(frames))

\* what the backend yields for this answer: taken so far, then still to come
BackendChunks == consumed \o backend

StreamedDirectAnswer ==
  /\ stream /\ failure = "none"
  /\ \E k \in 1..Len(llmCalls) : llmCalls[k].kind = "stream"

\* C30: in a streamed direct answer the deltas written so far are, in order,
\* the non-empty contents of the chunks taken so far; the chunks taken are a
\* prefix of the backend's chunks up to and including the first done chunk,
\* and all of them once the answer is over; nothing behind the first done
\* chunk is taken or written
C30_DeltasFollowChunks ==
  StreamedDirectAnswer =>
     /\ DeltaContents(res.frames) = NonEmptyContents(consumed)
     /\ IsPrefix(consumed, UpToFirstDone(BackendChunks))
     /\ pc = "done" =>
          /\ consumed = UpToFirstDone(BackendChunks)
          /\ DeltaContents(res.frames) = NonEmptyContents(UpToFirstDone(BackendChunks))

\* a done chunk with content was taken and written, the chunk behind it
\* was never taken
C30_Witness ==
  /\ StreamedDirectAnswer /\ pc = "done"
  /\ Len(consumed) = 1 /\ consumed[1].done
  /\ Len(backend) = 1 /\ backend[1].content # <<>>
  /\ DeltaContents(res.frames) = << <<"Hi">> >>

\* an empty chunk was taken without a delta, then a done chunk with content
C30_WitnessEmptyChunk ==
  /\ StreamedDirectAnswer /\ pc = "done"
  /\ Len(consumed) = 2 /\ consumed[1].content = <<>> /\ consumed[2].done
  /\ DeltaContents(res.frames) = << <<" there">> >>

\* ------------------------------------------------------- liveness of Part I
\* the steps the handler and the services it awaits take by themselves; a
\* client disconnect and a further request are the environment's choice
HandlerStep ==
  \/ HandleChat
  \/ AnalysisReturns \/ AnalysisFails
  \/ McpReturns \/ McpFails
  \/ SummaryReturns \/ SummaryFails
  \/ AnswerReturns \/ AnswerFails
  \/ StreamChunk \/ StreamEnds \/ StreamFails

\* BridgeService.js with a scheduler that runs every continuation whose
\* awaited call has settled, and services that always settle
SpecLive == Init /\ [][Next]_vars /\ WF_vars(HandlerStep)

\* C31: every request handled by handleChat eventually receives exactly one
\* terminal response action (one res.json, one status-500 JSON error or one
\* res.end closing the stream): never none once the handler has returned,
\* never two, for every mode, stream flag and outcome of the external calls.
C31_OneTerminalResponse ==
  /\ [](res.terminals <= 1)
  /\ (pc # "done") ~> (pc = "done" /\ res.terminals = 1)

\* outside TEST mode with stream = true the handler does answer exactly once
C31_OneTerminalOtherwise ==
  /\ [](res.terminals <= 1)
  /\ (pc # "done" /\ ~(mode = "TEST" /\ body.stream = TRUE)) ~> (pc = "done" /\ res.terminals = 1)

\* -------------------------------------------------- Part VII : properties
\* the MCP call of the request has resolved with a JSON body
JMcpAnswered == jMcpCalls # <<>> /\ jPc # "mcp" /\ jFailure # "mcp"

JSummaryCalls == { i \in 1..Len(jLlmCalls) : jLlmCalls[i].kind = "summary" }

\* the content the client was sent: the JSON completion, or the deltas
JDeliveredContent ==
  IF jStream
  THEN [ i \in 1..Cardinality({ k \in 1..Len(jRes.frames) : jRes.frames[k].type = "delta" }) |->
           LET ks == { k \in 1..Len(jRes.frames) : jRes.frames[k].type = "delta" }
               k  == CHOOSE k \in ks : Cardinality({ l \in ks : l <= k }) = i
           IN jRes.frames[k].content ]
  ELSE << jRes.json >>

\* C32: in the revision whose processPrompt looks at mcpResponse.error, an
\* MCP response with an error field gives the fixed content 'MCP Server
\* internal error (see grafana logs)', no summarising LLM call, and a normal
\* completion (not a 500); a response without an error field, for a prompt
\* that is not the tools-list request, gives exactly one summarising LLM
\* call whose assistant message is the JSON-serialised RPC result.
C32_McpErrorFixedContent ==
  /\ (JMcpAnswered /\ jMcpReply.hasError) =>
       /\ jPc = "done"
       /\ JSummaryCalls = {}
       /\ jFinal = MCP_INTERNAL_ERROR
       /\ JDeliveredContent = << MCP_INTERNAL_ERROR >>
       /\ jRes.ended /\ ~jRes.isError /\ jRes.status # 500
       /\ jMetrics.bridgeErrors = 0
       /\ ~jStream => jRes.status = 200
       /\ jStream => LastTwoAreFinishDone(jRes.frames)
  /\ (JMcpAnswered /\ ~jMcpReply.hasError /\ ~EndsWithTools(jPrompt)) =>
       /\ Cardinality(JSummaryCalls) = 1
       /\ \A i \in JSummaryCalls :
            /\ Len(jLlmCalls[i].messages) = 3
            /\ jLlmCalls[i].messages[2] =
                 Msg("assistant", IF jMcpReply.hasResult
                                  THEN <<"json", jMcpReply.result>> ELSE UNDEFINED)
            /\ ~jLlmCalls[i].stream

\* an analysed prompt whose MCP call came back with an error field, answered
\* with the fixed content in a 200 completion
C32_Witness ==
  /\ jPc = "done" /\ JMcpAnswered /\ jMcpReply.hasError
  /\ ~EndsWithTools(jPrompt) /\ ~jStream
  /\ jRes.status = 200 /\ jRes.json = MCP_INTERNAL_ERROR
  /\ Len(jLlmCalls) = 1

\* an MCP result summarised by one LLM call
C32_WitnessSummary ==
  /\ jPc = "done" /\ JMcpAnswered /\ jMcpReply.hasResult /\ ~EndsWithTools(jPrompt)
  /\ Cardinality(JSummaryCalls) = 1 /\ jFailure = "none"

\* ------------------------------------------------- Part VIII : properties
TypeErrors == { i \in 1..Len(svLog) : svLog[i].outcome = WITHSPAN_OF_UNDEFINED }

\* C33: after BridgeService.init() (and the equivalent module-level
\* initialisation) completes without throwing, the tracer reference is a
\* usable TempoTracer object, so every later callLLM / callMCP can invoke
\* withSpan on it; no call fails because the reference is undefined.
C33_TracerUsableAfterInit ==
  (svPc \in {"ready", "calling"}) => (svTempo = "TempoTracer" /\ TypeErrors = {})

\* the revision that keeps the constructed object does satisfy it
C33_UsableInPart005 ==
  (svRev = "part_005" /\ svPc \in {"ready", "calling"}) =>
    (svTempo = "TempoTracer" /\ svTracer /\ TypeErrors = {})

\* ----------------------------------------------- OWASP check : properties
OpinionCalls == { i \in 1..Len(chatLog) : chatLog[i].kind = "opinion" }

ToolEvents == { i \in 1..Len(trace) : IsToolEvent(trace[i]) }

RepliedInvalidPrompt == resT.status = 200 /\ resT.content = INVALID_PROMPT /\ resT.ended

\* C34: when the OWASP prompt check rejects a request (answer content set to
\* 'Invalid prompt'), the request is answered with 'Invalid prompt' and no
\* LLM opinion call and no tool dispatch is made for it.
C34_RejectedPromptNotProcessed ==
  (tpc # "idle" /\ ~owaspOk) =>
    /\ OpinionCalls = {}
    /\ ToolEvents = {}
    /\ rpcLog = <<>>
    /\ tpc = "done" => RepliedInvalidPrompt

\* a rejected prompt without a sentinel on its last line is answered with
\* 'Invalid prompt' and nothing is called for it
C34_RejectedDirectPrompt ==
  (tpc # "idle" /\ ~owaspOk /\ ModeByLastMessage(inbound) = "direct") =>
    /\ tpc = "done"
    /\ RepliedInvalidPrompt
    /\ chatLog = <<>> /\ rpcLog = <<>> /\ ToolEvents = {}

\* ------------------------------------------------ tool catalog : properties
\* the unknown-tool fallback of McpHelper.executeTool: the call's own
\* function object is handed back as the result
IsFallback(name, value) == value = <<"function", name>>

AdvertisedNames == { mcpTools[i] : i \in 1..Len(mcpTools) }

\* C35: every tool name advertised in the registry catalog (getToolsList,
\* getGrafanaVersion, getDashboards, getMetricsNames, getMetrics,
\* getDatasources, getDashboard, getMetric) is handled by its own dispatch
\* branch of executeTool, so a ToolCall naming a catalog tool never reaches
\* the unknown-tool fallback; and the catalog holds the same descriptors, in
\* the same order, at every point after construction.
C35_CatalogDispatched ==
  /\ mcpTools = << "getToolsList", "getGrafanaVersion", "getDashboards", "getMetricsNames",
                   "getMetrics", "getDatasources", "getDashboard", "getMetric" >>
  /\ \A name \in AdvertisedNames : \A uid \in {"", "abc"} :
       LET target == ExecuteToolTarget(ToolCall(name, uid))
       IN ~(target.local /\ IsFallback(name, target.value))
  /\ \A r \in Req : \A i \in 1..Len(qResults[r]) :
       qResults[r][i].name \in AdvertisedNames =>
         ~IsFallback(qResults[r][i].name, qResults[r][i].result.value)

\* one request has run getGrafanaVersion and getDashboards through their
\* branches while the other one has had the catalog attached as well
C35_Witness ==
  \E r \in Req : \E o \in Req \ {r} :
    /\ qPc[r] = "done"
    /\ Len(qResults[r]) = 2
    /\ qResults[r][1].name = "getGrafanaVersion"
    /\ qResults[r][1].result.value = <<"version", "latest">>
    /\ qResults[r][2].name = "getDashboards"
    /\ qChat[o] # <<>>
    /\ mcpTools = CATALOG

\* ------------------------------------------------ bridge metrics : properties
Bit(b) == IF b THEN 1 ELSE 0

\* the response shows that handleChat's catch block ran: the status-500
\* JSON error, or a stream ended without the finish chunk and [DONE]
AnsweredByCatch(r) ==
  \/ r.isError
  \/ r.ended /\ r.frames # <<>> /\ ~LastTwoAreFinishDone(r.frames)

\* C36: for every request handled by handleChat the bridge request counter
\* is incremented exactly once, the bridge latency timer is stopped exactly
\* once (on success and on failure), and the bridge error counter is
\* incremented exactly once if the request ends in the catch path and not at
\* all otherwise.  Stated on every step: the request counter moves by one
\* exactly when a request enters the handler, the timer and (on the catch
\* path) the error counter exactly when the handler returns.
C36_BridgeCountersOncePerRequest ==
  [][ LET enters  == pc = "idle" /\ pc' # "idle"
          returns == pc # "done" /\ pc' = "done"
      IN /\ metrics'.bridgeRequests = metrics.bridgeRequests + Bit(enters)
         /\ metrics'.bridgeTimerEnds = metrics.bridgeTimerEnds + Bit(returns)
         /\ metrics'.bridgeErrors =
              metrics.bridgeErrors + Bit(returns /\ AnsweredByCatch(res'))
    ]_vars

\* two requests served by one instance, one through the catch block and one
\* answered normally
C36_Witness ==
  /\ run = 2 /\ pc = "done"
  /\ metrics.bridgeRequests = 2
  /\ metrics.bridgeTimerEnds = 2
  /\ metrics.bridgeErrors = 1
  /\ prev.valid /\ prev.res.isError /\ ~res.isError /\ res.status = 200

\* the same accounting in the tool-call revision, for its one request
C36_ToolRevisionCounters ==
  /\ metricsT.bridgeRequests = Bit(tpc # "idle")
  /\ metricsT.bridgeTimerEnds = Bit(tpc = "done")
  /\ metricsT.bridgeErrors = Bit(tpc = "done" /\ resT.status = 500)

\* ---------------------------------------- metrics under concurrency : properties
\* requests whose LLM call / whose executeTools batch is in flight
LlmInFlight == { r \in Req : qPc[r] \in {"opinion", "answer"} }
McpInFlight == { r \in Req : qPc[r] \in {"tools", "fetch"} }

MetricNames == DOMAIN pairMetrics

ErrorsWithinRequests(m) ==
  /\ m.ollamaErrors <= m.ollamaRequests
  /\ m.mcpErrors <= m.mcpRequests
  /\ m.bridgeErrors <= m.bridgeRequests

C37_SequentialCounters ==
  /\ ErrorsWithinRequests(metrics)
  /\ metrics.ollamaTimerEnds = metrics.ollamaRequests - Bit(pc \in {"analysis", "summary", "answer", "stream"})
  /\ metrics.mcpTimerEnds = metrics.mcpRequests - Bit(pc = "mcp")

\* ------------------------------------------------- span lifecycle : properties
SpanEndEvents == { i \in 1..Len(spSpan.events) : spSpan.events[i] = "span.end" }

SpanClosedOnce ==
  /\ spSpan.ended
  /\ Cardinality(SpanEndEvents) = 1
  /\ spSpan.events[Len(spSpan.events)] = "span.end"

\* C38: every span started by withSpan is ended exactly once, whether fn
\* returns or throws, and receives exactly one status: success (code 1) if
\* and only if fn returned, error (code 2) if and only if fn threw;
\* 'span.end' is always the last event recorded on the span.
C38_SpanEndedOnceWithStatus ==
  (spPc = "done" /\ spSpan.started) =>
    /\ SpanClosedOnce
    /\ spSpan.status \in {1, 2}
    /\ spSpan.status = 1 <=> spFn.kind = "resolves"
    /\ spSpan.status = 2 <=> spFn.kind = "rejects"

\* what does hold: the span is always ended once with 'span.end' last, and
\* the status follows fn's outcome unless fn rejects with undefined or the
\* attributes cannot be set
C38_SpanEndedOnceOtherwise ==
  (spPc = "done" /\ spSpan.started) =>
    /\ SpanClosedOnce
    /\ (~SetAttributesThrows(spImpl, spAttrs) /\ spFn # Rejects("undefined")) =>
         /\ spSpan.status = 1 <=> spFn.kind = "resolves"
         /\ spSpan.status = 2 <=> spFn.kind = "rejects"

\* --------------------------------------------- normalizeIdentifier : properties
\* [a-zA-Z_:][a-zA-Z0-9_:]* over the code units of the inputs
MatchesIdentifier(s) ==
  /\ Len(s) >= 1
  /\ s[1] \in {"a", "Z", "_", ":"}
  /\ \A i \in 2..Len(s) : s[i] \in {"a", "Z", "7", "_", ":"}

NonEmptyString(v) == v.type = "string" /\ v.chars # <<>>

\* C39: normalizeIdentifier always returns a non-empty string matching
\* [a-zA-Z_:][a-zA-Z0-9_:]* of the same length as a non-empty string input
\* ('_' for an empty or non-string input), leaves an already valid
\* identifier unchanged, and is idempotent:
\* normalizeIdentifier(normalizeIdentifier(x)) = normalizeIdentifier(x).
C39_NormalizeIdentifier ==
  /\ niPc # "idle" =>
       /\ MatchesIdentifier(niOut)
       /\ NonEmptyString(niInput) => Len(niOut) = Len(niInput.chars)
       /\ ~NonEmptyString(niInput) => niOut = <<"_">>
       /\ (NonEmptyString(niInput) /\ MatchesIdentifier(niInput.chars)) => niOut = niInput.chars
  /\ niPc = "twice" => niTwice = niOut

\* '7a-' becomes '_a_' and stays '_a_' when normalised again
C39_Witness ==
  /\ niPc = "twice"
  /\ niInput = Str(<<"7", "a", "-">>)
  /\ niOut = <<"_", "a", "_">>
  /\ niTwice = <<"_", "a", "_">>

====
